---------------------------- MODULE Spec2Model ----------------------------
(***************************************************************************)
(* auntie-pdf-to-docx: the markdown-to-paragraph converter of the CLI      *)
(* script (convertMarkdownToParagraphs) and the image reference splicer of *)
(* the OCR result components.                                              *)
(*                                                                         *)
(* A JavaScript string is a sequence of one-character strings, so that    *)
(* "# a" is <<"#", " ", "a">>.                                             *)
(***************************************************************************)
EXTENDS Integers, Sequences, FiniteSets, TLC

(***************************************************************************)
(* Bounds of the model.                                                    *)
(***************************************************************************)
\* longest markdown text enumerated character by character
MaxLen == 4
\* most lines of a markdown text assembled from LinePool
MaxLines == 3
\* most tokens of a page's markdown assembled from TokenPool
MaxTokens == 2
\* most image records of a page
MaxImages == 2
\* most parts of SrcParts the target of a rendered image is assembled from
MaxSrcParts == 2
\* most messages of a chat transcript when a question is submitted
MaxMessages == 3
\* most pages of an OCR response
MaxPages == 2
\* most submissions of the form of OCRDocumentProcessor
MaxSubmissions == 3

(***************************************************************************)
(* String primitives of the JavaScript runtime, as the code uses them.     *)
(***************************************************************************)
NL == "\n"

\* characters String.prototype.trim removes
WhiteSpace == {" ", "\t", "\r", NL}

\* characters the regular expression atom . does not match
LineTerminators == {NL, "\r"}

\* String.prototype.startsWith
startsWith(s, p) == Len(p) <= Len(s) /\ SubSeq(s, 1, Len(p)) = p

\* s has p at position i (1-based)
HasAt(s, p, i) == i >= 1 /\ i + Len(p) - 1 <= Len(s) /\ SubSeq(s, i, i + Len(p) - 1) = p

\* String.prototype.indexOf from position i, 1-based; 0 when there is none
indexOf(s, p, i) ==
  LET found == {k \in i..(Len(s) - Len(p) + 1) : HasAt(s, p, k)}
  IN  IF found = {} THEN 0
      ELSE CHOOSE k \in found : \A x \in found : k <= x

\* String.prototype.includes
includes(s, p) == indexOf(s, p, 1) # 0

\* String.prototype.trim() is the empty string (falsy)
trimIsEmpty(s) == \A i \in 1..Len(s) : s[i] \in WhiteSpace

\* String.prototype.split('\n')
RECURSIVE split(_)
split(s) ==
  LET k == indexOf(s, <<NL>>, 1)
  IN  IF k = 0 THEN <<s>>
      ELSE <<SubSeq(s, 1, k - 1)>> \o split(SubSeq(s, k + 1, Len(s)))

\* GetSubstitution for a pattern without capture groups: in the replacement
\* text, $$ is a dollar sign, $& the matched text, $` the text before the
\* match and $' the text after it; any other $ stands for itself.
RECURSIVE GetSubstitution(_, _, _, _)
GetSubstitution(repl, matched, before, after) ==
  LET k == indexOf(repl, <<"$">>, 1)
  IN  IF k = 0 THEN repl
      ELSE IF k < Len(repl) /\ repl[k + 1] \in {"$", "&", "`", "'"}
           THEN SubSeq(repl, 1, k - 1)
                \o (CASE repl[k + 1] = "$" -> <<"$">>
                       [] repl[k + 1] = "&" -> matched
                       [] repl[k + 1] = "`" -> before
                       [] repl[k + 1] = "'" -> after)
                \o GetSubstitution(SubSeq(repl, k + 2, Len(repl)), matched, before, after)
           ELSE SubSeq(repl, 1, k)
                \o GetSubstitution(SubSeq(repl, k + 1, Len(repl)), matched, before, after)

\* a replace that removes every occurrence of the pattern, not the first only
replaceEveryOccurrence(s, p, repl) ==
  LET RECURSIVE go(_)
      go(t) == LET k == indexOf(t, p, 1)
               IN  IF k = 0 \/ p = <<>> THEN t
                   ELSE SubSeq(t, 1, k - 1) \o repl \o go(SubSeq(t, k + Len(p), Len(t)))
  IN  go(s)

\* String.prototype.replace(pattern, replacement), both strings: the first
\* occurrence of pattern only, the replacement text with its $ patterns
replaceString(s, p, repl) ==
  LET k == indexOf(s, p, 1)
  IN  IF k = 0 THEN s
      ELSE LET before == SubSeq(s, 1, k - 1)
               after  == SubSeq(s, k + Len(p), Len(s))
           IN  before \o GetSubstitution(repl, p, before, after) \o after

(***************************************************************************)
(* convertMarkdownToParagraphs: the docx objects it builds.                *)
(***************************************************************************)
\* new TextRun({ text, bold: true }), new TextRun({ text, italics: true }),
\* new TextRun(text)
TextRun(text, bold, italics) == [text |-> text, bold |-> bold, italics |-> italics]

\* new Paragraph({ text, heading: HEADING_<level>, spacing })
HeadingParagraph(level, text) ==
  [kind |-> "heading", level |-> level, text |-> text, runs |-> <<>>,
   after |-> CASE level = 1 -> 200 [] level = 2 -> 150 [] OTHER -> 100]

\* new Paragraph({ text: item, bullet: { level: 0 }, spacing })
BulletParagraph(item, isLast) ==
  [kind |-> "bullet", level |-> 0, text |-> item, runs |-> <<>>,
   after |-> IF isLast THEN 100 ELSE 0]

\* new Paragraph({ children: runs })
RunsParagraph(runs) ==
  [kind |-> "runs", level |-> 0, text |-> <<>>, runs |-> runs, after |-> 0]

\* new Paragraph({ text: '' })
EmptyParagraph ==
  [kind |-> "empty", level |-> 0, text |-> <<>>, runs |-> <<>>, after |-> 0]


(***************************************************************************)
(* convertMarkdownToParagraphs: the tests and rewrites of one line.        *)
(***************************************************************************)
\* line.match(/^[*-] /)
matchesBullet(line) == Len(line) >= 2 /\ line[1] \in {"*", "-"} /\ line[2] = " "

\* line.replace(/^[*-] /, '')
stripBullet(line) == IF matchesBullet(line) THEN SubSeq(line, 3, Len(line)) ELSE line

\* The lazy group (.*?) followed by the closing marker: the first position
\* q >= the given one where the marker stands, with only characters that .
\* matches before it; 0 when there is none.
closeAt(s, mark, q) ==
  LET k == indexOf(s, mark, q)
  IN  IF k = 0 THEN 0
      ELSE IF \E x \in q..(k - 1) : s[x] \in LineTerminators THEN 0
      ELSE k

\* text.replace(/MARK(.*?)MARK/g, (_, content) => { runs.push(content); return '' })
\* scanning from position p on, with the contents pushed so far and the text
\* kept so far: the contents pushed, and what is left of the text.
RECURSIVE scanEmphasis(_, _, _, _, _)
scanEmphasis(s, mark, p, found, rest) ==
  IF p > Len(s) THEN [found |-> found, rest |-> rest]
  ELSE IF HasAt(s, mark, p) /\ closeAt(s, mark, p + Len(mark)) # 0
       THEN scanEmphasis(s, mark, closeAt(s, mark, p + Len(mark)) + Len(mark),
                         Append(found, SubSeq(s, p + Len(mark), closeAt(s, mark, p + Len(mark)) - 1)),
                         rest)
       ELSE scanEmphasis(s, mark, p + 1, found, Append(rest, s[p]))

replaceEmphasis(s, mark, p) == scanEmphasis(s, mark, p, <<>>, <<>>)

\* the two passes in the other order: italic spans first
lineRunsItalicFirst(l) ==
  LET italic == replaceEmphasis(l, <<"*">>, 1)
      bold   == replaceEmphasis(italic.rest, <<"*", "*">>, 1)
      text   == bold.rest
  IN  [k \in 1..Len(italic.found) |-> TextRun(italic.found[k], FALSE, TRUE)]
      \o [k \in 1..Len(bold.found) |-> TextRun(bold.found[k], TRUE, FALSE)]
      \o (IF ~trimIsEmpty(text) THEN <<TextRun(text, FALSE, FALSE)>> ELSE <<>>)

\* the italic pass run on the line itself, bold spans still in it
lineRunsItalicOnLine(l) ==
  LET bold   == replaceEmphasis(l, <<"*", "*">>, 1)
      italic == replaceEmphasis(l, <<"*">>, 1)
      text   == replaceEmphasis(bold.rest, <<"*">>, 1).rest
  IN  [k \in 1..Len(bold.found) |-> TextRun(bold.found[k], TRUE, FALSE)]
      \o [k \in 1..Len(italic.found) |-> TextRun(italic.found[k], FALSE, TRUE)]
      \o (IF ~trimIsEmpty(text) THEN <<TextRun(text, FALSE, FALSE)>> ELSE <<>>)

\* the runs with the regular text pushed whenever it is not empty
lineRunsPlainUnlessEmpty(l) ==
  LET bold   == replaceEmphasis(l, <<"*", "*">>, 1)
      italic == replaceEmphasis(bold.rest, <<"*">>, 1)
      text   == italic.rest
  IN  [k \in 1..Len(bold.found) |-> TextRun(bold.found[k], TRUE, FALSE)]
      \o [k \in 1..Len(italic.found) |-> TextRun(italic.found[k], FALSE, TRUE)]
      \o (IF text # <<>> THEN <<TextRun(text, FALSE, FALSE)>> ELSE <<>>)

\* the runs of a paragraph line: bold pass, italic pass, regular text
lineRuns(l) ==
  LET bold   == replaceEmphasis(l, <<"*", "*">>, 1)
      italic == replaceEmphasis(bold.rest, <<"*">>, 1)
      text   == italic.rest
  IN  [k \in 1..Len(bold.found) |-> TextRun(bold.found[k], TRUE, FALSE)]
      \o [k \in 1..Len(italic.found) |-> TextRun(italic.found[k], FALSE, TRUE)]
      \o (IF ~trimIsEmpty(text) THEN <<TextRun(text, FALSE, FALSE)>> ELSE <<>>)

\* a flush that gives every item the spacing of the last one
flushedItemsAllLast(items) ==
  [k \in 1..Len(items) |-> BulletParagraph(items[k], TRUE)]

\* listItems.forEach((item, index) => paragraphs.push(...))
flushedItems(items) ==
  [k \in 1..Len(items) |-> BulletParagraph(items[k], k = Len(items))]

(***************************************************************************)
(* The markdown texts the converter is run on: every text of at most       *)
(* MaxLen characters over Alphabet, and every text of at most MaxLines     *)
(* lines drawn from LinePool.                                              *)
(***************************************************************************)
Alphabet == {"#", "*", "-", " ", "a", NL}

RawTexts == UNION {[1..n -> Alphabet] : n \in 0..MaxLen}

LinePool ==
  { <<>>, <<" ">>, <<"a">>, <<"b">>,
    <<"#", " ", "a">>, <<"#", "#", " ", "a">>, <<"#", "#", "#", " ", "a">>,
    <<"-", " ", "a">>, <<"*", " ", "b">>,
    <<"*", "*", "B", "o", "l", "d", "*", "*", " ", "a", "n", "d", " ", "*", "i", "t", "a", "l", "i", "c", "*", " ", "t", "e", "x", "t">> }

RECURSIVE join(_)
join(ls) == IF Len(ls) = 1 THEN ls[1] ELSE ls[1] \o <<NL>> \o join(Tail(ls))

PoolTexts == {join(ls) : ls \in UNION {[1..n -> LinePool] : n \in 1..MaxLines}}

\* a list with a heading or a paragraph line inside it, ended by a blank line
ListTexts ==
  { join(<< <<"-", " ", "a">>, h, <<"*", " ", "b">>, <<>>, <<"b">> >>) :
      h \in {<<"#", " ", "a">>, <<"#", "#", " ", "a">>, <<"#", "#", "#", " ", "a">>, <<"b">>} }

\* lines with a bold span inside an italic one, and the other way round
EmphasisTexts ==
  { <<"*", "a", "*", "*", "b", "*", "*", "c", "*">>,
    <<"*", "*", "a", "*", "b", "*", "c", "*", "*">>,
    <<"*", "*", "*", "a", "*", "*", " ", "b">> }

Inputs == RawTexts \cup PoolTexts \cup ListTexts \cup EmphasisTexts


(***************************************************************************)
(* State.  convertMarkdownToParagraphs: its argument, its locals and its   *)
(* place in the loop over the lines.                                       *)
(***************************************************************************)
VARIABLES
  markdown,     \* the argument
  lines,        \* markdown.split('\n')
  i,            \* 1-based index of the line the for loop is at
  paragraphs,   \* the Paragraph array being built and returned
  inList,       \* let inList
  listItems,    \* let listItems
  pc,           \* "loop" inside the for loop, "done" once returned
  producedBy,   \* history: for each paragraph pushed, the index of its line
  itemLines     \* history: for each item of listItems, the index of its line

convVars == <<markdown, lines, i, paragraphs, inList, listItems, pc, producedBy, itemLines>>

(***************************************************************************)
(* State.  The image effect of OCRDocumentProcessor, for one page of the   *)
(* result: the page, the locals of the effect and its place in it.         *)
(***************************************************************************)
VARIABLES
  component,          \* the file the effect is read from
  pageMarkdown,       \* page.markdown
  images,             \* page.images
  imageMap,           \* const imageMap, as Object.entries lists it
  processedMarkdown,  \* let processedMarkdown
  entryIdx,           \* 1-based index of the entry the forEach is at
  spc                 \* "start", "replace", "done"

spliceVars == <<component, pageMarkdown, images, imageMap, processedMarkdown, entryIdx, spc>>

(***************************************************************************)
(* State.  customRenderers.img, called by ReactMarkdown for one image of   *)
(* the markdown it renders.                                                *)
(***************************************************************************)
VARIABLES
  renderer,     \* the file the renderer is read from
  props,        \* the props of the image: src and alt
  element,      \* the element the renderer returned
  rpc           \* "call" when called, "returned" once it returned

renderVars == <<renderer, props, element, rpc>>

(***************************************************************************)
(* State.  DocumentChat and the POST /api/chat route it calls: the state   *)
(* of the component, the call in flight and the place handleSubmit is at.  *)
(***************************************************************************)
VARIABLES
  query,            \* useState(''): the text of the input
  messages,         \* useState<Message[]>([])
  isLoading,        \* useState(false)
  error,            \* useState<string | null>(null)
  isEnabled,        \* the isEnabled prop
  preparedContent,  \* useState<string>(''), set from the document
  request,          \* the body of the fetch in flight
  served,           \* what the chat service did for that request
  response,         \* the response of the route
  chatPc            \* "idle", "fetching", "responded"

chatVars ==
  <<query, messages, isLoading, error, isEnabled, preparedContent, request, served, response, chatPc>>

(***************************************************************************)
(* State.  POST /api/upload for one request.                               *)
(***************************************************************************)
VARIABLES
  file,            \* formData.get('file')
  apiKey,          \* process.env.MISTRAL_API_KEY
  forwarded,       \* client.files.upload has been called with the file
  uploadResponse,  \* the response of the route
  upc              \* "request" when called, "done" once it responded

uploadVars == <<file, apiKey, forwarded, uploadResponse, upc>>

(***************************************************************************)
(* State.  processPdfToDocx from the OCR response on: the pages, the       *)
(* section being built for a page and the sections of the document.        *)
(***************************************************************************)
VARIABLES
  ocrPages,      \* ocrResponse.pages
  pageIdx,       \* 1-based index of the page the outer forEach is at
  imgIdx,        \* 1-based index of the image the inner forEach is at
  pageChildren,  \* const pageChildren
  sections,      \* const sections
  cpc            \* "pages", "images", "text", "done"

cliVars == <<ocrPages, pageIdx, imgIdx, pageChildren, sections, cpc>>

\* OCRDocumentProcessor (components/ocr-document-processor.tsx): its state,
\* the requests of its handlers that are awaited, and what has happened
VARIABLES
  procFile,        \* useState(null): file, the selected file
  result,          \* useState(null): the OCR result shown
  procStatus,          \* useState('idle')
  procError,       \* useState(null): error
  viewMode,        \* useState('rendered')
  processed,       \* useState({}): processedMarkdown, the result it was computed from and its keys
  documentUrl,     \* useState('')
  inputMethod,     \* useState('file')
  inFlight,        \* the fetches awaited by calls of handleUpload and handleUrlSubmit
  submitted,       \* how many submissions have started
  resetAt,         \* the value of submitted at the last handleClear or handleFileChange
  effectPending,   \* result has changed and the image effect has not run yet
  ppc              \* "mounted" while the component is there

procVars == <<procFile, result, procStatus, procError, viewMode, processed, documentUrl, inputMethod,
              inFlight, submitted, resetAt, effectPending, ppc>>

\* processPdfToDocx (process-pdf.ts): its arguments, the file system and the
\* environment it reads, its calls of the Mistral client, and its promise
VARIABLES
  inputPath,       \* the argument inputPath
  outputPath,      \* the argument outputPath, Undefined when there is none
  inputExists,     \* fs.existsSync(inputPath)
  envApiKey,       \* process.env.MISTRAL_API_KEY
  finalOutputPath, \* outputPath || defaultOutput
  uploadCalls,     \* how many times client.files.upload was called
  ocrCalls,        \* how many times client.ocr.process was called
  written,         \* the calls of fs.writeFileSync that returned: path and data
  promise,         \* "pending", or what the promise settled as
  failedAt,        \* the step that threw or rejected, "none" when no step did
  runPc            \* where processPdfToDocx is

runVars == <<inputPath, outputPath, inputExists, envApiKey, finalOutputPath, uploadCalls,
             ocrCalls, written, promise, failedAt, runPc>>

vars == <<convVars, spliceVars, renderVars, chatVars, uploadVars, cliVars, procVars, runVars>>

\* what a step of the converter, of the image effect, of the renderer, of
\* the chat, of the upload route and of processPdfToDocx leave alone
outsideConv == <<spliceVars, renderVars, chatVars, uploadVars, cliVars, procVars, runVars>>
outsideSplice == <<convVars, renderVars, chatVars, uploadVars, cliVars, procVars, runVars>>
outsideRender == <<convVars, spliceVars, chatVars, uploadVars, cliVars, procVars, runVars>>
outsideChat == <<convVars, spliceVars, renderVars, uploadVars, cliVars, procVars, runVars>>
outsideUpload == <<convVars, spliceVars, renderVars, chatVars, cliVars, procVars, runVars>>
outsideProc == <<convVars, spliceVars, renderVars, chatVars, uploadVars, cliVars, runVars>>
outsideRun == <<convVars, spliceVars, renderVars, chatVars, uploadVars, cliVars, procVars>>
\* and of the step of processPdfToDocx that starts the loop over the pages
outsideRunCli == <<convVars, spliceVars, renderVars, chatVars, uploadVars, procVars>>
\* and of the step that converts the content of a response without pages
outsideRunCliConv == <<spliceVars, renderVars, chatVars, uploadVars, procVars>>
outsideCli == <<convVars, spliceVars, renderVars, chatVars, uploadVars, procVars, runVars>>
\* and of the step of processPdfToDocx that calls the converter
outsideCliConv == <<spliceVars, renderVars, chatVars, uploadVars, procVars, runVars>>

ConvInit ==
  /\ markdown \in Inputs
  /\ lines = split(markdown)
  /\ i = 1
  /\ paragraphs = <<>>
  /\ inList = FALSE
  /\ listItems = <<>>
  /\ pc = "loop"
  /\ producedBy = <<>>
  /\ itemLines = <<>>

\* the for loop is at a line
AtLine == pc = "loop" /\ i <= Len(lines)

line == lines[i]

H1 == <<"#", " ">>
H2 == <<"#", "#", " ">>
H3 == <<"#", "#", "#", " ">>

\* the conditions of the if / else-if chain, as written
isHeading1(l) == startsWith(l, H1)
isHeading2(l) == startsWith(l, H2)
isHeading3(l) == startsWith(l, H3)
isListLine(l) == matchesBullet(l)
\* the test without trim(): any line that is not the empty string
isTextLineNoTrim(l) == Len(l) > 0
isTextLine(l) == ~trimIsEmpty(l)

NextLine == i' = i + 1 /\ UNCHANGED <<markdown, lines, pc, outsideConv>>

\* history: the paragraph pushed at this step is the one of the line at hand
PushedForLine == producedBy' = Append(producedBy, i) /\ UNCHANGED itemLines

NoHeading(l) == ~isHeading1(l) /\ ~isHeading2(l) /\ ~isHeading3(l)

\* a line no earlier branch took: empty, or of white space only
FallsThrough(l) == NoHeading(l) /\ ~isListLine(l) /\ ~isTextLine(l)

\* the branch of the if / else-if chain the loop body takes at the line
atHeading1 == AtLine /\ isHeading1(line)
atHeading2 == AtLine /\ ~isHeading1(line) /\ isHeading2(line)
atHeading3 == AtLine /\ ~isHeading1(line) /\ ~isHeading2(line) /\ isHeading3(line)
atListLine == AtLine /\ NoHeading(line) /\ isListLine(line)
atTextLine == AtLine /\ NoHeading(line) /\ ~isListLine(line) /\ isTextLine(line)
atEndOfList == AtLine /\ FallsThrough(line) /\ (inList /\ Len(listItems) > 0)

\* the last branch as an if of its own, not the else of the list flush
atBlankLineNotElse == AtLine /\ FallsThrough(line)

atBlankLine == AtLine /\ FallsThrough(line) /\ ~(inList /\ Len(listItems) > 0)

atReturn == pc = "loop" /\ i > Len(lines)

\* a heading that first flushes the list pending
Heading1FlushingList ==
  /\ atHeading1
  /\ paragraphs' = Append(paragraphs \o (IF inList THEN flushedItems(listItems) ELSE <<>>),
                          HeadingParagraph(1, replaceString(line, H1, <<>>)))
  /\ inList' = FALSE
  /\ listItems' = <<>>
  /\ producedBy' = Append(producedBy \o (IF inList THEN itemLines ELSE <<>>), i)
  /\ itemLines' = <<>>
  /\ NextLine

Heading1 ==
  /\ atHeading1
  /\ paragraphs' = Append(paragraphs, HeadingParagraph(1, replaceString(line, H1, <<>>)))
  /\ UNCHANGED <<inList, listItems>>
  /\ PushedForLine
  /\ NextLine

Heading2 ==
  /\ atHeading2
  /\ paragraphs' = Append(paragraphs, HeadingParagraph(2, replaceString(line, H2, <<>>)))
  /\ UNCHANGED <<inList, listItems>>
  /\ PushedForLine
  /\ NextLine

Heading3 ==
  /\ atHeading3
  /\ paragraphs' = Append(paragraphs, HeadingParagraph(3, replaceString(line, H3, <<>>)))
  /\ UNCHANGED <<inList, listItems>>
  /\ PushedForLine
  /\ NextLine

ListLine ==
  /\ atListLine
  /\ inList' = TRUE
  /\ listItems' = Append(IF ~inList THEN <<>> ELSE listItems, stripBullet(line))
  /\ UNCHANGED paragraphs
  /\ itemLines' = Append(IF ~inList THEN <<>> ELSE itemLines, i)
  /\ UNCHANGED producedBy
  /\ NextLine

TextLine ==
  /\ atTextLine
  /\ paragraphs' = Append(paragraphs, RunsParagraph(lineRuns(line)))
  /\ UNCHANGED <<inList, listItems>>
  /\ PushedForLine
  /\ NextLine

\* a flush that also emits the empty paragraph of the blank line
EndOfListWithSpacer ==
  /\ atEndOfList
  /\ paragraphs' = Append(paragraphs \o flushedItems(listItems), EmptyParagraph)
  /\ inList' = FALSE
  /\ listItems' = <<>>
  /\ producedBy' = Append(producedBy \o itemLines, i)
  /\ itemLines' = <<>>
  /\ NextLine

EndOfList ==
  /\ atEndOfList
  /\ paragraphs' = paragraphs \o flushedItems(listItems)
  /\ inList' = FALSE
  /\ listItems' = <<>>
  /\ producedBy' = producedBy \o itemLines
  /\ itemLines' = <<>>
  /\ NextLine

BlankLine ==
  /\ atBlankLine
  /\ paragraphs' = Append(paragraphs, EmptyParagraph)
  /\ UNCHANGED <<inList, listItems>>
  /\ PushedForLine
  /\ NextLine

\* a return that first flushes the list still pending
ReturnFlushingList ==
  /\ atReturn
  /\ pc' = "done"
  /\ paragraphs' = paragraphs \o (IF inList THEN flushedItems(listItems) ELSE <<>>)
  /\ producedBy' = producedBy \o (IF inList THEN itemLines ELSE <<>>)
  /\ UNCHANGED <<markdown, lines, i, inList, listItems, itemLines, outsideConv>>

Return ==
  /\ atReturn
  /\ pc' = "done"
  /\ UNCHANGED <<markdown, lines, i, paragraphs, inList, listItems, producedBy, itemLines,
                 outsideConv>>

ConvNext ==
  \/ Heading1
  \/ Heading2
  \/ Heading3
  \/ ListLine
  \/ TextLine
  \/ EndOfList
  \/ BlankLine
  \/ Return

\* the converter is not running
ConvIdle ==
  /\ markdown = <<>>
  /\ lines = <<>>
  /\ i = 0
  /\ paragraphs = <<>>
  /\ inList = FALSE
  /\ listItems = <<>>
  /\ pc = "idle"
  /\ producedBy = <<>>
  /\ itemLines = <<>>

(***************************************************************************)
(* The image effect: the values it reads.                                  *)
(***************************************************************************)
\* a field of an image record that is not there, or null
Undefined == <<"undefined">>
Null == <<"null">>

\* a JavaScript value that is truthy: a string that is not empty
truthy(v) == v \notin {Undefined, Null, <<>>}

\* img.image_base64 || img.imageBase64
base64DataOf(img) == IF truthy(img.image_base64) THEN img.image_base64 ELSE img.imageBase64

\* the test without trim(): any string that is not empty
hasPayloadNoTrim(img) == truthy(base64DataOf(img))

\* base64Data && typeof base64Data === 'string' && base64Data.trim() !== ''
hasPayload(img) == truthy(base64DataOf(img)) /\ ~trimIsEmpty(base64DataOf(img))

DataPrefix == <<"d", "a", "t", "a", ":">>
JpegPrefix == <<"d", "a", "t", "a", ":", "i", "m", "a", "g", "e", "/", "j", "p", "e", "g", ";", "b", "a", "s", "e", "6", "4", ",">>

\* base64Data.startsWith('data:') ? base64Data : `data:image/jpeg;base64,${base64Data}`
imgSrcOf(base64Data) ==
  IF startsWith(base64Data, DataPrefix) THEN base64Data ELSE JpegPrefix \o base64Data

\* a property key that is an array index: Object.entries lists these
\* first, in ascending order, before the other keys in insertion order
Digits == <<"0", "1", "2", "3", "4", "5", "6", "7", "8", "9">>
isDigit(c) == \E d \in DOMAIN Digits : Digits[d] = c
digitValue(c) == (CHOOSE d \in DOMAIN Digits : Digits[d] = c) - 1
isArrayIndex(key) ==
  /\ Len(key) >= 1
  /\ \A x \in DOMAIN key : isDigit(key[x])
  /\ (Len(key) > 1 => key[1] # "0")
  /\ Len(key) <= 9
RECURSIVE indexValue(_)
indexValue(key) ==
  IF key = <<>> THEN 0
  ELSE 10 * indexValue(SubSeq(key, 1, Len(key) - 1)) + digitValue(key[Len(key)])

\* whether Object.entries lists key a before a new key b
listedBefore(a, b) ==
  IF isArrayIndex(b) THEN isArrayIndex(a) /\ indexValue(a) < indexValue(b) ELSE TRUE

\* an assignment that leaves the value of a key that is there already
setEntryKeepingFirst(entries, id, src) ==
  IF \E x \in DOMAIN entries : entries[x].id = id
  THEN entries
  ELSE LET n == Cardinality({x \in DOMAIN entries : listedBefore(entries[x].id, id)})
       IN  SubSeq(entries, 1, n) \o <<[id |-> id, src |-> src]>> \o SubSeq(entries, n + 1, Len(entries))

\* imageMap[img.id] = imgSrc, on the entries as Object.entries lists them
setEntry(entries, id, src) ==
  IF \E x \in DOMAIN entries : entries[x].id = id
  THEN [x \in DOMAIN entries |-> IF entries[x].id = id THEN [id |-> id, src |-> src] ELSE entries[x]]
  ELSE LET n == Cardinality({x \in DOMAIN entries : listedBefore(entries[x].id, id)})
       IN  SubSeq(entries, 1, n) \o <<[id |-> id, src |-> src]>> \o SubSeq(entries, n + 1, Len(entries))

\* page.images.forEach((img) => { ... imageMap[img.id] = imgSrc })
RECURSIVE buildImageMap(_, _)
buildImageMap(imgs, entries) ==
  IF imgs = <<>> THEN entries
  ELSE buildImageMap(Tail(imgs),
                     IF hasPayload(Head(imgs))
                     THEN setEntry(entries, Head(imgs).id, imgSrcOf(base64DataOf(Head(imgs))))
                     ELSE entries)

\* `![${alt}](${target})`
imageRef(alt, target) == <<"!", "[">> \o alt \o <<"]", "(">> \o target \o <<")">>

\* the characters of the class [.*+?^${}()|[\]\\]
RegExpSpecial == {".", "*", "+", "?", "^", "$", "{", "}", "(", ")", "|", "[", "]", "\\"}

\* the escaping with the dot left out of the class
RECURSIVE escapeRegExpKeepingDot(_)
escapeRegExpKeepingDot(s) ==
  IF s = <<>> THEN <<>>
  ELSE (IF s[1] \in RegExpSpecial \ {"."} THEN <<"\\", s[1]>> ELSE <<s[1]>>)
       \o escapeRegExpKeepingDot(Tail(s))

\* s.replace(/[.*+?^${}()|[\]\\]/g, '\\$&'): the source text of a pattern,
\* a backslash put before every special character
RECURSIVE escapeRegExp(_)
escapeRegExp(s) ==
  IF s = <<>> THEN <<>>
  ELSE (IF s[1] \in RegExpSpecial THEN <<"\\", s[1]>> ELSE <<s[1]>>)
       \o escapeRegExp(Tail(s))

\* new RegExp(source) for a source of escaped characters, plain characters
\* and dots: one atom for each character to match, a dot matching any
\* character that is no line terminator
RECURSIVE RegExp(_)
RegExp(source) ==
  IF source = <<>> THEN <<>>
  ELSE IF source[1] = "\\" /\ Len(source) >= 2
       THEN <<[any |-> FALSE, ch |-> source[2]]>> \o RegExp(SubSeq(source, 3, Len(source)))
       ELSE <<[any |-> source[1] = ".", ch |-> source[1]]>> \o RegExp(Tail(source))

\* the pattern matches the text at position p
matchesAt(s, re, p) ==
  /\ p >= 1
  /\ p + Len(re) - 1 <= Len(s)
  /\ \A x \in DOMAIN re :
       IF re[x].any THEN s[p + x - 1] \notin LineTerminators ELSE s[p + x - 1] = re[x].ch

\* the first match of the pattern from position p on; 0 when there is none
firstMatch(s, re, p) ==
  LET found == {k \in p..(Len(s) - Len(re) + 1) : matchesAt(s, re, k)}
  IN  IF found = {} THEN 0
      ELSE CHOOSE k \in found : \A x \in found : k <= x

\* str.replace(new RegExp(source, 'g'), replacement): every match, left to
\* right, is replaced by the replacement text with its $ patterns expanded
RECURSIVE replaceEvery(_, _, _, _, _)
replaceEvery(s, re, replacement, p, out) ==
  LET k == firstMatch(s, re, p)
  IN  IF k = 0 THEN out \o SubSeq(s, p, Len(s))
      ELSE replaceEvery(s, re, replacement, k + Len(re),
                        out \o SubSeq(s, p, k - 1)
                            \o GetSubstitution(replacement, SubSeq(s, k, k + Len(re) - 1),
                                               SubSeq(s, 1, k - 1),
                                               SubSeq(s, k + Len(re), Len(s))))

\* the exact pass of one entry
exactPass(s, imgId, base64Data) ==
  IF includes(s, imageRef(imgId, imgId))
  THEN replaceEvery(s, RegExp(escapeRegExp(imageRef(imgId, imgId))),
                    imageRef(imgId, base64Data), 1, <<>>)
  ELSE s

\* the lazy group (.*?) followed by the rest of the pattern: the first
\* position q >= the given one where the rest matches, with only characters
\* that . matches before it; 0 when there is none
closeMatch(s, re, q) ==
  LET k == firstMatch(s, re, q)
  IN  IF k = 0 THEN 0
      ELSE IF \E x \in q..(k - 1) : s[x] \in LineTerminators THEN 0
      ELSE k

\* the source of the pattern after its group: \]\(${escaped(imgId)}\)
looseClose(imgId) == <<"\\", "]", "\\", "(">> \o escapeRegExp(imgId) \o <<"\\", ")">>

\* [...str.matchAll(new RegExp(`!\\[(.*?)\\]\\(${escaped(imgId)}\\)`, 'g'))]
\* (components/ocr-document.tsx): [fullMatch, altText] of every match
RECURSIVE matchAllLoose(_, _, _, _)
matchAllLoose(s, imgId, p, out) ==
  LET open  == indexOf(s, <<"!", "[">>, p)
      re    == RegExp(looseClose(imgId))
      close == closeMatch(s, re, open + 2)
  IN  IF open = 0 THEN out
      ELSE IF close # 0
           THEN matchAllLoose(s, imgId, close + Len(re),
                  Append(out,
                    [fullMatch |-> SubSeq(s, open, close + Len(re) - 1),
                     altText   |-> SubSeq(s, open + 2, close - 1)]))
           ELSE matchAllLoose(s, imgId, open + 1, out)

\* [...str.matchAll(new RegExp(`!\\[(.*?)\\]\$$${escaped(imgId)}\$$`, 'g'))]
\* (components/ocr-document-processor.tsx): the pattern is
\* !\[(.*?)\]$$<id>$$, where each $ asserts the end of the text, so an id
\* of one character or more never matches, and the empty id matches one
\* "![...]" that ends the text
endMatchStarts(s) ==
  {p \in 1..(Len(s) - 2) :
     /\ HasAt(s, <<"!", "[">>, p)
     /\ s[Len(s)] = "]"
     /\ \A x \in (p + 2)..(Len(s) - 1) : s[x] \notin LineTerminators}

matchAllLooseProcessor(s, imgId) ==
  IF imgId # <<>> \/ endMatchStarts(s) = {} THEN <<>>
  ELSE LET p == CHOOSE x \in endMatchStarts(s) : \A y \in endMatchStarts(s) : x <= y
       IN  <<[fullMatch |-> SubSeq(s, p, Len(s)), altText |-> SubSeq(s, p + 2, Len(s) - 1)]>>

\* matches.forEach((match) => { processedMarkdown = processedMarkdown.replace(fullMatch, ...) })
RECURSIVE replaceMatches(_, _, _)
replaceMatches(s, matches, base64Data) ==
  IF matches = <<>> THEN s
  ELSE replaceMatches(replaceString(s, Head(matches).fullMatch,
                                    imageRef(Head(matches).altText, base64Data)),
                      Tail(matches), base64Data)

\* the loose pass of one entry
loosePass(comp, s, imgId, base64Data) ==
  replaceMatches(s,
                 IF comp \in {"ocr-document", "part_004"} THEN matchAllLoose(s, imgId, 1, <<>>)
                 ELSE matchAllLooseProcessor(s, imgId),
                 base64Data)

(***************************************************************************)
(* The pages the effect is run on: markdown of at most MaxTokens tokens of *)
(* TokenPool, with at most MaxImages image records of ImagePool.           *)
(***************************************************************************)
IdI == <<"i">>
IdJ == <<"j">>
IdDollars == <<"$", "$">>

ImagePool ==
  { [id |-> IdI, image_base64 |-> <<"b">>, imageBase64 |-> Undefined],
    [id |-> IdI, image_base64 |-> Undefined, imageBase64 |-> DataPrefix \o <<"c">>],
    [id |-> IdDollars, image_base64 |-> <<"b">>, imageBase64 |-> Undefined],
    [id |-> IdI, image_base64 |-> <<" ">>, imageBase64 |-> Undefined],
    [id |-> IdI, image_base64 |-> <<>>, imageBase64 |-> Null],
    [id |-> IdJ, image_base64 |-> Undefined, imageBase64 |-> Undefined] }

TokenPool ==
  { imageRef(IdI, IdI), imageRef(<<"a">>, IdI), imageRef(IdDollars, IdDollars),
    imageRef(IdDollars, IdI), imageRef(<<"$", "&">>, IdI), imageRef(IdJ, IdJ), <<"x">>, <<NL>> }

RECURSIVE concat(_)
concat(ts) == IF ts = <<>> THEN <<>> ELSE Head(ts) \o concat(Tail(ts))

PageMarkdowns == {concat(ts) : ts \in UNION {[1..n -> TokenPool] : n \in 0..MaxTokens}}

PageImages == UNION {[1..n -> ImagePool] : n \in 0..MaxImages}

Components == {"ocr-document", "ocr-document-processor"}

\* the effect is not running
SpliceIdle ==
  /\ component = "none"
  /\ pageMarkdown = <<>>
  /\ images = <<>>
  /\ imageMap = <<>>
  /\ processedMarkdown = <<>>
  /\ entryIdx = 0
  /\ spc = "idle"

SpliceInit ==
  /\ component \in Components
  /\ pageMarkdown \in PageMarkdowns
  /\ images \in PageImages
  /\ imageMap = <<>>
  /\ processedMarkdown = <<>>
  /\ entryIdx = 0
  /\ spc = "start"

\* if (!page.images || page.images.length === 0) { processed[page.index] = page.markdown; return }
SkipNoImages ==
  /\ spc = "start"
  /\ images = <<>>
  /\ processedMarkdown' = pageMarkdown
  /\ spc' = "done"
  /\ UNCHANGED <<component, pageMarkdown, images, imageMap, entryIdx, outsideSplice>>

\* the image map is built and processedMarkdown starts as page.markdown
BuildImageMap ==
  /\ spc = "start"
  /\ images # <<>>
  /\ imageMap' = buildImageMap(images, <<>>)
  /\ processedMarkdown' = pageMarkdown
  /\ entryIdx' = 1
  /\ spc' = "replace"
  /\ UNCHANGED <<component, pageMarkdown, images, outsideSplice>>

\* one round of Object.entries(imageMap).forEach: the exact pass, then the
\* loose pass
ReplaceEntry ==
  /\ spc = "replace"
  /\ entryIdx <= Len(imageMap)
  /\ processedMarkdown' =
       loosePass(component,
                 exactPass(processedMarkdown, imageMap[entryIdx].id, imageMap[entryIdx].src),
                 imageMap[entryIdx].id, imageMap[entryIdx].src)
  /\ entryIdx' = entryIdx + 1
  /\ UNCHANGED <<component, pageMarkdown, images, imageMap, spc, outsideSplice>>

\* processed[page.index] = processedMarkdown
StoreProcessed ==
  /\ spc = "replace"
  /\ entryIdx > Len(imageMap)
  /\ spc' = "done"
  /\ UNCHANGED <<component, pageMarkdown, images, imageMap, processedMarkdown, entryIdx, outsideSplice>>

\* Object.entries(imageMap).forEach from entry n on, as one function
RECURSIVE replaceEntries(_, _, _, _)
replaceEntries(comp, s, entries, n) ==
  IF n > Len(entries) THEN s
  ELSE replaceEntries(comp,
                      loosePass(comp, exactPass(s, entries[n].id, entries[n].src),
                                entries[n].id, entries[n].src),
                      entries, n + 1)

\* the body of result.pages.forEach for a page, as one function of the page
processPage(comp, text, imgs) ==
  IF imgs = <<>> THEN text ELSE replaceEntries(comp, text, buildImageMap(imgs, <<>>), 1)

SpliceNext ==
  \/ SkipNoImages
  \/ BuildImageMap
  \/ ReplaceEntry
  \/ StoreProcessed

(***************************************************************************)
(* customRenderers.img: the image renderer of the two components.          *)
(***************************************************************************)
DataImage == <<"d", "a", "t", "a", ":", "i", "m", "a", "g", "e", "/">>
DataApplication == <<"d", "a", "t", "a", ":", "a", "p", "p", "l", "i", "c", "a", "t", "i", "o", "n", "/">>
PlaceholderSvg == <<"/placeholder.svg">>
ImageAlt == <<"Image">>

\* the test on any data: reference
isBase64AnyData(src) == truthy(src) /\ startsWith(src, DataPrefix)

\* props.src && (props.src.startsWith('data:image/') || props.src.startsWith('data:application/'))
isBase64(src) ==
  truthy(src) /\ (startsWith(src, DataImage) \/ startsWith(src, DataApplication))

\* a || b
orElse(a, b) == IF truthy(a) THEN a ELSE b

\* {props.alt} as a text child: undefined and null render as nothing
textOf(v) == IF v \in {Undefined, Null} THEN <<>> ELSE v

\* <img src={...} alt={props.alt || 'Image'} className='max-w-full' />
ImgElement(src, alt) == [tag |-> "img", src |-> src, alt |-> alt, text |-> <<>>]

\* <span ...><span className='text-gray-500'>[Image not available: {props.alt}]</span></span>
SpanElement(alt) ==
  [tag |-> "span", src |-> Undefined, alt |-> Undefined,
   text |-> <<"[Image not available: ">> \o textOf(alt) \o <<"]">>]

\* img: (props) => ...
img(comp, p) ==
  IF isBase64(p.src)
  THEN ImgElement(IF comp = "ocr-document-processor" THEN orElse(p.src, PlaceholderSvg) ELSE p.src,
                  orElse(p.alt, ImageAlt))
  ELSE SpanElement(p.alt)

\* the targets of the images of a rendered markdown: data references the
\* splicer inserts, identifiers it left unresolved, links to other hosts
SrcParts ==
  { DataPrefix, <<"i", "m", "a", "g", "e", "/">>,
    <<"a", "p", "p", "l", "i", "c", "a", "t", "i", "o", "n", "/">>,
    <<"t", "e", "x", "t", "/">>, <<"h", "t", "t", "p", "s", ":", "/", "/">>,
    <<"D", "A", "T", "A", ":">>, <<"i">>, <<" ">> }

Srcs == {concat(ts) : ts \in UNION {[1..n -> SrcParts] : n \in 0..MaxSrcParts}} \cup {Undefined}

Alts == {<<>>, <<"a">>, IdI, Undefined}

NoElement == [tag |-> "none", src |-> Undefined, alt |-> Undefined, text |-> <<>>]

\* the renderer is not running
RenderIdle ==
  /\ renderer = "none"
  /\ props = [src |-> Undefined, alt |-> Undefined]
  /\ element = NoElement
  /\ rpc = "idle"

RenderInit ==
  /\ renderer \in Components
  /\ props \in [src : Srcs, alt : Alts]
  /\ element = NoElement
  /\ rpc = "call"

\* ReactMarkdown calls customRenderers.img and places what it returns
RenderImg ==
  /\ rpc = "call"
  /\ element' = img(renderer, props)
  /\ rpc' = "returned"
  /\ UNCHANGED <<renderer, props, outsideRender>>

RenderNext == RenderImg

(***************************************************************************)
(* POST /api/chat and DocumentChat.handleSubmit.                           *)
(***************************************************************************)
UserMessage(content) == [role |-> "user", content |-> content]
AssistantMessage(content) == [role |-> "assistant", content |-> content]

\* NextResponse.json({ error }, { status }) and NextResponse.json({ answer })
JsonError(message, status) == [status |-> status, error |-> message, answer |-> Undefined]
JsonAnswer(answer) == [status |-> 200, error |-> Undefined, answer |-> answer]

DocumentContentRequired == <<"Document content is required">>
QueryRequired == <<"Query is required">>
ApiKeyNotDefined == <<"MISTRAL_API_KEY is not defined in environment variables">>
UnknownError == <<"An unknown error occurred">>
FailedToGetResponse == <<"Failed to get response">>

\* what initMistralClient and client.chat.complete do for one request
Answers(a) == [kind |-> "answers", value |-> a]
ThrowsError(m) == [kind |-> "throwsError", value |-> m]
ThrowsOther == [kind |-> "throwsOther", value |-> Undefined]
NoApiKey == [kind |-> "noApiKey", value |-> Undefined]
NoOutcome == [kind |-> "none", value |-> Undefined]

\* the route with every caught error reported as unknown
POSTUnknownError(body, outcome) ==
  IF ~truthy(body.documentContent) THEN JsonError(DocumentContentRequired, 400)
  ELSE IF ~truthy(body.query) THEN JsonError(QueryRequired, 400)
  ELSE IF outcome.kind = "answers" THEN JsonAnswer(outcome.value)
  ELSE JsonError(UnknownError, 500)

\* export async function POST(request)
POST(body, outcome) ==
  IF ~truthy(body.documentContent) THEN JsonError(DocumentContentRequired, 400)
  ELSE IF ~truthy(body.query) THEN JsonError(QueryRequired, 400)
  ELSE IF outcome.kind = "noApiKey" THEN JsonError(ApiKeyNotDefined, 500)
  ELSE IF outcome.kind = "answers" THEN JsonAnswer(outcome.value)
  ELSE IF outcome.kind = "throwsError" THEN JsonError(outcome.value, 500)
  ELSE JsonError(UnknownError, 500)

\* response.ok
ok(r) == r.status >= 200 /\ r.status <= 299

Queries == {<<>>, <<" ">>, <<"q">>, <<"r">>}
Documents == {<<>>, <<"d">>}
AnswerTexts == {<<"a">>, <<"b">>}
ErrorMessages == {<<>>, <<"m">>, <<"n">>}

Outcomes ==
  {Answers(a) : a \in AnswerTexts} \cup {ThrowsError(m) : m \in ErrorMessages}
    \cup {ThrowsOther, NoApiKey}

NoRequest == [documentContent |-> Undefined, query |-> Undefined]
NoResponse == [status |-> 0, error |-> Undefined, answer |-> Undefined]

\* the chat is not mounted
ChatIdle ==
  /\ query = <<>>
  /\ messages = <<>>
  /\ isLoading = FALSE
  /\ error = Null
  /\ isEnabled = FALSE
  /\ preparedContent = <<>>
  /\ request = NoRequest
  /\ served = NoOutcome
  /\ response = NoResponse
  /\ chatPc = "unmounted"

ChatInit ==
  /\ query = <<>>
  /\ messages = <<>>
  /\ isLoading = FALSE
  /\ error = Null
  /\ isEnabled \in BOOLEAN
  /\ preparedContent \in Documents
  /\ request = NoRequest
  /\ served = NoOutcome
  /\ response = NoResponse
  /\ chatPc = "idle"

\* the parent renders DocumentChat with another isEnabled
SetIsEnabled ==
  /\ chatPc # "unmounted"
  /\ isEnabled' = ~isEnabled
  /\ UNCHANGED <<query, messages, isLoading, error, preparedContent, request, served,
                 response, chatPc, outsideChat>>

\* an input that takes text while a request is awaited
SetQueryWhileLoading ==
  /\ chatPc # "unmounted"
  /\ isEnabled
  /\ \E q \in Queries \ {query} : query' = q
  /\ UNCHANGED <<messages, isLoading, error, isEnabled, preparedContent, request, served,
                 response, chatPc, outsideChat>>

\* onChange={(e) => setQuery(e.target.value)}, disabled={!isEnabled || isLoading}
SetQuery ==
  /\ chatPc # "unmounted"
  /\ isEnabled /\ ~isLoading
  /\ \E q \in Queries \ {query} : query' = q
  /\ UNCHANGED <<messages, isLoading, error, isEnabled, preparedContent, request, served,
                 response, chatPc, outsideChat>>

\* if (!query.trim() || !isEnabled || !preparedContent) return
submitReturns == trimIsEmpty(query) \/ ~isEnabled \/ ~truthy(preparedContent)

HandleSubmitReturns ==
  /\ chatPc # "unmounted"
  /\ submitReturns
  /\ UNCHANGED <<chatVars, outsideChat>>

\* handleSubmit up to the fetch
HandleSubmit ==
  /\ chatPc # "unmounted"
  /\ ~submitReturns
  /\ Len(messages) < MaxMessages
  /\ messages' = Append(messages, UserMessage(query))
  /\ query' = <<>>
  /\ error' = Null
  /\ isLoading' = TRUE
  /\ request' = [documentContent |-> preparedContent, query |-> query]
  /\ served' = NoOutcome
  /\ response' = NoResponse
  /\ chatPc' = "fetching"
  /\ UNCHANGED <<isEnabled, preparedContent, outsideChat>>

\* the route handles the request
ChatRoute ==
  /\ chatPc = "fetching"
  /\ \E o \in Outcomes :
       /\ served' = o
       /\ response' = POST(request, o)
  /\ chatPc' = "responded"
  /\ UNCHANGED <<query, messages, isLoading, error, isEnabled, preparedContent, request,
                 outsideChat>>

\* fetch rejects: catch (err) { setError(err.message) } finally { setIsLoading(false) }
FetchRejects ==
  /\ chatPc = "fetching"
  /\ \E m \in ErrorMessages : error' = m
  /\ isLoading' = FALSE
  /\ chatPc' = "idle"
  /\ UNCHANGED <<query, messages, isEnabled, preparedContent, request, served, response,
                 outsideChat>>

\* if (!response.ok) throw new Error(errorData.error || 'Failed to get response'),
\* caught: setError(err.message), finally setIsLoading(false)
HandleSubmitError ==
  /\ chatPc = "responded"
  /\ ~ok(response)
  /\ error' = orElse(response.error, FailedToGetResponse)
  /\ isLoading' = FALSE
  /\ chatPc' = "idle"
  /\ UNCHANGED <<query, messages, isEnabled, preparedContent, request, served, response,
                 outsideChat>>

\* setMessages((prevMessages) => [...prevMessages, assistantMessage])
HandleSubmitAnswer ==
  /\ chatPc = "responded"
  /\ ok(response)
  /\ messages' = Append(messages, AssistantMessage(response.answer))
  /\ isLoading' = FALSE
  /\ chatPc' = "idle"
  /\ UNCHANGED <<query, error, isEnabled, preparedContent, request, served, response,
                 outsideChat>>

ChatNext ==
  \/ SetIsEnabled
  \/ SetQuery
  \/ HandleSubmitReturns
  \/ HandleSubmit
  \/ ChatRoute
  \/ FetchRejects
  \/ HandleSubmitError
  \/ HandleSubmitAnswer

(***************************************************************************)
(* POST /api/upload.                                                       *)
(***************************************************************************)
MAX_FILE_SIZE == 80 * 1024 * 1024

ApplicationPdf == <<"application/pdf">>
NoFileProvided == <<"No file provided">>
OnlyPdfSupported == <<"Only PDF files are supported">>
FileSizeExceeds == <<"File size exceeds the 10MB limit">>
ApiKeyNotConfigured == <<"Mistral API key not configured">>
FailedToUpload == <<"Failed to upload file">>

\* Response.json({ error }, { status }) and Response.json({ fileId, ... })
UploadError(message, status) == [status |-> status, error |-> message, fileId |-> Undefined]
Uploaded(id) == [status |-> 200, error |-> Undefined, fileId |-> id]

NoFile == [type |-> Undefined, size |-> 0]

FileTypes == {ApplicationPdf, <<"image/png">>, <<>>}

\* the sizes at and next to 5, 10 and 80 megabytes, and the smallest files
FileSizes ==
  {0, 1} \cup {m * 1024 * 1024 + d : m \in {5, 10, 80}, d \in {-1, 0, 1}}

Files == {NoFile} \cup [type : FileTypes, size : FileSizes]

ApiKeys == {Undefined, <<"key">>}

FileIds == {<<"f">>, <<"g">>}

\* the route is not running
UploadIdle ==
  /\ file = NoFile
  /\ apiKey = Undefined
  /\ forwarded = FALSE
  /\ uploadResponse = UploadError(Undefined, 0)
  /\ upc = "idle"

UploadInit ==
  /\ file \in Files
  /\ apiKey \in ApiKeys
  /\ forwarded = FALSE
  /\ uploadResponse = UploadError(Undefined, 0)
  /\ upc = "request"

Respond(r) ==
  /\ uploadResponse' = r
  /\ upc' = "done"
  /\ UNCHANGED <<file, apiKey, outsideUpload>>

\* if (!file)
RejectNoFile ==
  /\ upc = "request"
  /\ file = NoFile
  /\ Respond(UploadError(NoFileProvided, 400))
  /\ UNCHANGED forwarded

\* if (file.type !== 'application/pdf')
RejectNotPdf ==
  /\ upc = "request"
  /\ file # NoFile
  /\ file.type # ApplicationPdf
  /\ Respond(UploadError(OnlyPdfSupported, 400))
  /\ UNCHANGED forwarded

\* the file reaches the size check
atSizeCheck == upc = "request" /\ file # NoFile /\ file.type = ApplicationPdf

\* if (file.size > MAX_FILE_SIZE)
RejectTooLarge ==
  /\ atSizeCheck
  /\ file.size > MAX_FILE_SIZE
  /\ Respond(UploadError(FileSizeExceeds, 413))
  /\ UNCHANGED forwarded

\* if (!apiKey)
RejectNoApiKey ==
  /\ atSizeCheck
  /\ ~(file.size > MAX_FILE_SIZE)
  /\ ~truthy(apiKey)
  /\ Respond(UploadError(ApiKeyNotConfigured, 500))
  /\ UNCHANGED forwarded

\* client.files.upload resolves
UploadToMistral ==
  /\ atSizeCheck
  /\ ~(file.size > MAX_FILE_SIZE)
  /\ truthy(apiKey)
  /\ forwarded' = TRUE
  /\ \E id \in FileIds : Respond(Uploaded(id))

\* client.files.upload throws: catch (error)
UploadThrows ==
  /\ atSizeCheck
  /\ ~(file.size > MAX_FILE_SIZE)
  /\ truthy(apiKey)
  /\ forwarded' = TRUE
  /\ Respond(UploadError(FailedToUpload, 500))

UploadNext ==
  \/ RejectNoFile
  \/ RejectNotPdf
  \/ RejectTooLarge
  \/ RejectNoApiKey
  \/ UploadToMistral
  \/ UploadThrows

(***************************************************************************)
(* processPdfToDocx: the sections built from the pages of the response.    *)
(***************************************************************************)
\* String(n) of a number that is not negative
RECURSIVE decimal(_)
decimal(n) ==
  IF n < 10 THEN <<Digits[n + 1]>> ELSE decimal(n \div 10) \o <<Digits[(n % 10) + 1]>>

\* new Paragraph({ text: "Document Analysis", heading: HeadingLevel.HEADING_1 })
DocumentAnalysis ==
  [kind |-> "heading", level |-> 1, text |-> <<"Document Analysis">>, runs |-> <<>>]

\* new Paragraph({ text: `Page ${page.index + 1}`, heading: HEADING_1, spacing: { before: 400, after: 200 } })
PageHeading(index) ==
  [kind |-> "heading", level |-> 1, text |-> <<"P", "a", "g", "e", " ">> \o decimal(index + 1),
   runs |-> <<>>, before |-> 400, after |-> 200]

\* base64Data.split(',')[1]: the text between the first comma and the
\* second, undefined when there is no comma
afterComma(s) ==
  LET c == indexOf(s, <<",">>, 1)
      rest == SubSeq(s, c + 1, Len(s))
      d == indexOf(rest, <<",">>, 1)
  IN  IF c = 0 THEN Undefined
      ELSE IF d = 0 THEN rest
      ELSE SubSeq(rest, 1, d - 1)

\* Buffer.from(text, 'base64'): the bytes the text encodes; it throws a
\* TypeError when text is undefined
BufferFrom(text) == [decodedFrom |-> text]

\* new Paragraph({ children: [new ImageRun({ data, transformation: { width: 500, height: 300 } })] })
ImageParagraph(data) ==
  [kind |-> "image", level |-> 0, text |-> <<>>,
   runs |-> <<[data |-> data, width |-> 500, height |-> 300]>>]

\* the list the inner forEach visits: page.images when it is an array, and
\* nothing otherwise, which a page holds as the empty list
imagesOf(pg) == pg.images

\* page.markdown || page.text || ''
textContent(pg) == orElse(orElse(pg.markdown, pg.text), <<>>)

DataUri == JpegPrefix \o <<"Q", "Q">>
BareBase64 == <<"Q", "Q">>

ImgDataUri == [image_base64 |-> DataUri, imageBase64 |-> Undefined]
ImgDataUriCamel == [image_base64 |-> Undefined, imageBase64 |-> DataUri]
ImgBare == [image_base64 |-> BareBase64, imageBase64 |-> Undefined]
ImgNoPayload == [image_base64 |-> <<>>, imageBase64 |-> Null]

CliImageLists ==
  { <<>>, <<ImgDataUri>>, <<ImgBare>>, <<ImgNoPayload, ImgDataUriCamel>>,
    <<ImgDataUri, ImgBare>> }

CliMarkdowns ==
  { <<>>, <<"b">>, join(<< <<>>, <<"-", " ", "a">> >>),
    join(<< <<"-", " ", "a">>, <<>>, <<"b">> >>),
    join(<< <<"#", " ", "c">>, <<"#", "#", " ", "c">>, <<"#", "#", "#", " ", "c">> >>) }

\* what a page holds besides its index
CliPages ==
  [images : CliImageLists, markdown : CliMarkdowns, text : {Undefined}]
    \cup {[images |-> <<>>, markdown |-> Undefined, text |-> <<"b">>]}

\* the pages of a response, numbered from 0
OcrResponses ==
  UNION { { [k \in 1..n |-> [index |-> k - 1, images |-> c[k].images,
                             markdown |-> c[k].markdown, text |-> c[k].text]] :
            c \in [1..n -> CliPages] } : n \in 0..MaxPages }

\* processPdfToDocx is not running
CliIdle ==
  /\ ocrPages = <<>>
  /\ pageIdx = 0
  /\ imgIdx = 0
  /\ pageChildren = <<>>
  /\ sections = <<>>
  /\ cpc = "idle"

\* const sections = [{ properties: {}, children: [Document Analysis] }]
CliInit ==
  /\ ocrPages \in OcrResponses
  /\ pageIdx = 1
  /\ imgIdx = 0
  /\ pageChildren = <<>>
  /\ sections = <<[children |-> <<DocumentAnalysis>>]>>
  /\ cpc = "pages"

page == ocrPages[pageIdx]

\* const pageChildren = [new Paragraph({ text: `Page ${page.index + 1}`, ... })]
PageStart ==
  /\ cpc = "pages"
  /\ pageIdx <= Len(ocrPages)
  /\ pageChildren' = <<PageHeading(page.index)>>
  /\ imgIdx' = 1
  /\ cpc' = "images"
  /\ UNCHANGED <<ocrPages, pageIdx, sections, outsideCli>>

atImage == cpc = "images" /\ imgIdx <= Len(imagesOf(page))

NextImage == imgIdx' = imgIdx + 1 /\ UNCHANGED <<ocrPages, pageIdx, sections, cpc, outsideCli>>

\* if (base64Data) is not taken
ImageSkipped ==
  /\ atImage
  /\ ~truthy(base64DataOf(imagesOf(page)[imgIdx]))
  /\ UNCHANGED pageChildren
  /\ NextImage

\* Buffer.from(...) of the text after the comma, and the image paragraph
ImageAdded ==
  /\ atImage
  /\ truthy(base64DataOf(imagesOf(page)[imgIdx]))
  /\ afterComma(base64DataOf(imagesOf(page)[imgIdx])) # Undefined
  /\ pageChildren' =
       Append(pageChildren,
              ImageParagraph(BufferFrom(afterComma(base64DataOf(imagesOf(page)[imgIdx])))))
  /\ NextImage

\* Buffer.from(undefined, 'base64') throws: catch (imgError) { console.warn(...) }
ImageFailed ==
  /\ atImage
  /\ truthy(base64DataOf(imagesOf(page)[imgIdx]))
  /\ afterComma(base64DataOf(imagesOf(page)[imgIdx])) = Undefined
  /\ UNCHANGED pageChildren
  /\ NextImage

\* the call that keeps the list state of the call before it
ConvertPageKeepingList ==
  /\ cpc = "images"
  /\ imgIdx > Len(imagesOf(page))
  /\ markdown' = textContent(page)
  /\ lines' = split(textContent(page))
  /\ i' = 1
  /\ paragraphs' = <<>>
  /\ producedBy' = <<>>
  /\ pc' = "loop"
  /\ cpc' = "text"
  /\ UNCHANGED <<inList, listItems, itemLines, ocrPages, pageIdx, imgIdx, pageChildren, sections, outsideCliConv>>

\* convertMarkdownToParagraphs(textContent) is called: its locals are fresh
ConvertPage ==
  /\ cpc = "images"
  /\ imgIdx > Len(imagesOf(page))
  /\ markdown' = textContent(page)
  /\ lines' = split(textContent(page))
  /\ i' = 1
  /\ paragraphs' = <<>>
  /\ inList' = FALSE
  /\ listItems' = <<>>
  /\ producedBy' = <<>>
  /\ itemLines' = <<>>
  /\ pc' = "loop"
  /\ cpc' = "text"
  /\ UNCHANGED <<ocrPages, pageIdx, imgIdx, pageChildren, sections, outsideCliConv>>

\* pageChildren.push(...formattedParagraphs); sections.push({ properties: {}, children: pageChildren })
PushSection ==
  /\ cpc = "text"
  /\ pc = "done"
  /\ pageChildren' = pageChildren \o paragraphs
  /\ sections' = Append(sections, [children |-> pageChildren \o paragraphs])
  /\ pageIdx' = pageIdx + 1
  /\ cpc' = "pages"
  /\ UNCHANGED <<ocrPages, imgIdx, outsideCli>>

\* the forEach over the pages is over
PagesDone ==
  /\ cpc = "pages"
  /\ pageIdx > Len(ocrPages)
  /\ cpc' = "done"
  /\ UNCHANGED <<ocrPages, pageIdx, imgIdx, pageChildren, sections, outsideCli>>

CliNext ==
  \/ PageStart
  \/ ImageSkipped
  \/ ImageAdded
  \/ ImageFailed
  \/ ConvertPage
  \/ ConvNext
  \/ PushSection
  \/ PagesDone

(***************************************************************************)
(* Pages whose image ids hold pattern-special characters, with references  *)
(* to them and to targets that differ from them in a character.            *)
(***************************************************************************)
IdDot == <<".">>
IdParen == <<"(">>
IdPlus == <<"+">>

SpecialIdImages ==
  { [id |-> IdDot, image_base64 |-> <<"b">>, imageBase64 |-> Undefined],
    [id |-> IdParen, image_base64 |-> <<"b">>, imageBase64 |-> Undefined],
    [id |-> IdPlus, image_base64 |-> Undefined, imageBase64 |-> <<"b">>] }

SpecialIdTokens ==
  { imageRef(IdDot, IdDot), imageRef(<<"x">>, <<"x">>), imageRef(<<"a">>, IdDot),
    imageRef(IdParen, IdParen), imageRef(<<"a">>, IdPlus), imageRef(<<"a">>, <<"x">>) }

SpecialIdInit ==
  /\ component \in Components
  /\ pageMarkdown \in {concat(ts) : ts \in UNION {[1..n -> SpecialIdTokens] : n \in 0..MaxTokens}}
  /\ images \in UNION {[1..n -> SpecialIdImages] : n \in 0..MaxImages}
  /\ imageMap = <<>>
  /\ processedMarkdown = <<>>
  /\ entryIdx = 0
  /\ spc = "start"

(***************************************************************************)
(* Pages whose image records share ids, one of the ids an array index.     *)
(***************************************************************************)
IdOne == <<"1">>

SharedIdImages ==
  { [id |-> IdI, image_base64 |-> <<"b">>, imageBase64 |-> Undefined],
    [id |-> IdI, image_base64 |-> Undefined, imageBase64 |-> DataPrefix \o <<"c">>],
    [id |-> IdOne, image_base64 |-> <<"b">>, imageBase64 |-> Undefined],
    [id |-> IdJ, image_base64 |-> <<"d">>, imageBase64 |-> Undefined] }

SharedIdTokens ==
  { imageRef(IdI, IdI), imageRef(<<"a">>, IdI), imageRef(<<"a">>, IdOne), imageRef(IdJ, IdJ), <<"x">> }

SharedIdInit ==
  /\ component \in Components
  /\ pageMarkdown \in {concat(ts) : ts \in UNION {[1..n -> SharedIdTokens] : n \in 0..MaxTokens}}
  /\ images \in UNION {[1..n -> SharedIdImages] : n \in 0..MaxImages}
  /\ imageMap = <<>>
  /\ processedMarkdown = <<>>
  /\ entryIdx = 0
  /\ spc = "start"

(***************************************************************************)
(* OCRDocumentProcessor: the handlers of its form. Each action is one      *)
(* synchronous run of a handler, whose state updates React commits         *)
(* together; a handler that awaits a fetch goes on in a later action. The  *)
(* image effect runs after the commit that changed result, before the next *)
(* event is handled.                                                       *)
(***************************************************************************)
NoFileSelected == <<"Sweetie, you forgot to select a file first!">>
OnlyPdfFiles == <<"Oh honey, I only work with PDF files! Let's try again.">>
PdfTooBig == <<"Oh my, that PDF is too big for Auntie's reading glasses! Please try a smaller document (under 5MB) or use the url option.">>
FailedToUploadFile == <<"Failed to upload file">>
FailedToProcessFile == <<"Failed to process file">>
NoUrlEntered == <<"Sweetie, you need to enter a URL first!">>
FailedToProcessUrl == <<"Failed to process document URL">>

\* the files the file input can hand over: none, a PDF, a file of another type
SelectedFiles == {Null, <<"application/pdf">>, <<"text/plain">>}

\* the texts of the URL field: empty, white space, a URL
UrlTexts == {<<>>, <<" ">>, <<"u">>}

\* the number of pages of a result: none (text only) or one, of index 0
PageCounts == {0, 1}

\* the error field of the JSON body of a failed response: absent, or a text
ErrorFields == {Undefined, <<"m">>}

\* result = null
NoResult == [id |-> 0, pages |-> 0]

\* processedMarkdown = {}
NoProcessed == [from |-> 0, keys |-> {}]

\* the submit button is disabled
submitDisabled ==
  \/ inputMethod = "file" /\ (procFile = Null \/ procStatus = "uploading" \/ procStatus = "processing")
  \/ inputMethod = "url" /\ (~truthy(documentUrl) \/ procStatus = "processing")

\* the Start Fresh button is disabled
clearDisabled == procFile = Null /\ result = NoResult /\ ~truthy(documentUrl)

\* isEnabled of DocumentChat
chatIsEnabled == procStatus = "complete"

\* the component is not mounted
ProcIdle ==
  /\ procFile = Null
  /\ result = NoResult
  /\ procStatus = "idle"
  /\ procError = Null
  /\ viewMode = "rendered"
  /\ processed = NoProcessed
  /\ documentUrl = <<>>
  /\ inputMethod = "file"
  /\ inFlight = {}
  /\ submitted = 0
  /\ resetAt = 0
  /\ effectPending = FALSE
  /\ ppc = "unmounted"

ProcInit ==
  /\ procFile = Null
  /\ result = NoResult
  /\ procStatus = "idle"
  /\ procError = Null
  /\ viewMode = "rendered"
  /\ processed = NoProcessed
  /\ documentUrl = <<>>
  /\ inputMethod = "file"
  /\ inFlight = {}
  /\ submitted = 0
  /\ resetAt = 0
  /\ effectPending = FALSE
  /\ ppc = "mounted"

\* an event is handled: the component is there and no effect is pending
atEvent == ppc = "mounted" /\ ~effectPending

\* onClick={() => setInputMethod(...)}
SetInputMethod ==
  /\ atEvent
  /\ \E m \in {"file", "url"} : inputMethod' = m
  /\ UNCHANGED <<procFile, result, procStatus, procError, viewMode, processed, documentUrl,
                 inFlight, submitted, resetAt, effectPending, ppc, outsideProc>>

\* onChange={(e) => setDocumentUrl(e.target.value)}
SetDocumentUrl ==
  /\ atEvent
  /\ inputMethod = "url"
  /\ documentUrl' \in UrlTexts
  /\ UNCHANGED <<procFile, result, procStatus, procError, viewMode, processed, inputMethod,
                 inFlight, submitted, resetAt, effectPending, ppc, outsideProc>>

toggleViewMode ==
  /\ atEvent
  /\ result # NoResult
  /\ viewMode' = IF viewMode = "rendered" THEN "raw" ELSE "rendered"
  /\ UNCHANGED <<procFile, result, procStatus, procError, processed, documentUrl, inputMethod,
                 inFlight, submitted, resetAt, effectPending, ppc, outsideProc>>

handleFileChange ==
  /\ atEvent
  /\ inputMethod = "file"
  /\ procFile' \in SelectedFiles
  /\ result' = NoResult
  /\ procError' = Null
  /\ procStatus' = "idle"
  /\ processed' = NoProcessed
  /\ resetAt' = submitted
  /\ effectPending' = (result # NoResult)
  /\ UNCHANGED <<viewMode, documentUrl, inputMethod, inFlight, submitted, ppc, outsideProc>>

\* a handleClear that leaves the procStatus as it is
handleClearKeepingStatus ==
  /\ atEvent
  /\ ~clearDisabled
  /\ procFile' = Null
  /\ result' = NoResult
  /\ procError' = Null
  /\ processed' = NoProcessed
  /\ documentUrl' = <<>>
  /\ resetAt' = submitted
  /\ effectPending' = (result # NoResult)
  /\ UNCHANGED <<procStatus, viewMode, inputMethod, inFlight, submitted, ppc, outsideProc>>

handleClear ==
  /\ atEvent
  /\ ~clearDisabled
  /\ procFile' = Null
  /\ result' = NoResult
  /\ procError' = Null
  /\ procStatus' = "idle"
  /\ processed' = NoProcessed
  /\ documentUrl' = <<>>
  /\ resetAt' = submitted
  /\ effectPending' = (result # NoResult)
  /\ UNCHANGED <<viewMode, inputMethod, inFlight, submitted, ppc, outsideProc>>

\* handleUpload returns at one of its two checks
handleUploadRefuses ==
  /\ atEvent
  /\ inputMethod = "file" /\ ~submitDisabled
  /\ procFile # <<"application/pdf">>
  /\ procError' = IF procFile = Null THEN NoFileSelected ELSE OnlyPdfFiles
  /\ UNCHANGED <<procFile, result, procStatus, viewMode, processed, documentUrl, inputMethod,
                 inFlight, submitted, resetAt, effectPending, ppc, outsideProc>>

\* handleUpload up to its first await: the fetch of /api/upload
handleUpload ==
  /\ atEvent
  /\ inputMethod = "file" /\ ~submitDisabled
  /\ procFile = <<"application/pdf">>
  /\ submitted < MaxSubmissions
  /\ procStatus' = "uploading"
  /\ procError' = Null
  /\ submitted' = submitted + 1
  /\ inFlight' = inFlight \cup {[id |-> submitted + 1, awaits |-> "upload"]}
  /\ UNCHANGED <<procFile, result, viewMode, processed, documentUrl, inputMethod,
                 resetAt, effectPending, ppc, outsideProc>>

\* handleUrlSubmit returns at its check
handleUrlSubmitRefuses ==
  /\ atEvent
  /\ inputMethod = "url" /\ ~submitDisabled
  /\ trimIsEmpty(documentUrl)
  /\ procError' = NoUrlEntered
  /\ UNCHANGED <<procFile, result, procStatus, viewMode, processed, documentUrl, inputMethod,
                 inFlight, submitted, resetAt, effectPending, ppc, outsideProc>>

\* handleUrlSubmit up to its await: the fetch of /api/process-url
handleUrlSubmit ==
  /\ atEvent
  /\ inputMethod = "url" /\ ~submitDisabled
  /\ ~trimIsEmpty(documentUrl)
  /\ submitted < MaxSubmissions
  /\ procStatus' = "processing"
  /\ procError' = Null
  /\ submitted' = submitted + 1
  /\ inFlight' = inFlight \cup {[id |-> submitted + 1, awaits |-> "url"]}
  /\ UNCHANGED <<procFile, result, viewMode, processed, documentUrl, inputMethod,
                 resetAt, effectPending, ppc, outsideProc>>

\* catch (err) { setError(err.message); setStatus('error') } of the call r
Caught(r, message) ==
  /\ procError' = message
  /\ procStatus' = "error"
  /\ inFlight' = inFlight \ {r}
  /\ UNCHANGED <<procFile, result, viewMode, processed, documentUrl, inputMethod,
                 submitted, resetAt, effectPending, ppc, outsideProc>>

\* the upload answers 413
UploadTooBig ==
  /\ atEvent
  /\ \E r \in inFlight : r.awaits = "upload" /\ Caught(r, PdfTooBig)

\* the upload answers with another procStatus that is not ok, or the fetch fails
UploadFails ==
  /\ atEvent
  /\ \E r \in inFlight : \E e \in ErrorFields :
       r.awaits = "upload" /\ Caught(r, orElse(e, FailedToUploadFile))

\* the upload answers with the file id: setStatus('processing') and the
\* fetch of /api/process
UploadSucceeds ==
  /\ atEvent
  /\ \E r \in inFlight :
       /\ r.awaits = "upload"
       /\ procStatus' = "processing"
       /\ inFlight' = (inFlight \ {r}) \cup {[id |-> r.id, awaits |-> "process"]}
  /\ UNCHANGED <<procFile, result, procError, viewMode, processed, documentUrl, inputMethod,
                 submitted, resetAt, effectPending, ppc, outsideProc>>

\* /api/process or /api/process-url answers not ok
ProcessFails ==
  /\ atEvent
  /\ \E r \in inFlight : \E e \in ErrorFields :
       /\ r.awaits \in {"process", "url"}
       /\ Caught(r, orElse(e, IF r.awaits = "process" THEN FailedToProcessFile
                              ELSE FailedToProcessUrl))

\* /api/process or /api/process-url answers with the OCR data:
\* setResult(...) and setStatus('complete')
ProcessSucceeds ==
  /\ atEvent
  /\ \E r \in inFlight : \E n \in PageCounts :
       /\ r.awaits \in {"process", "url"}
       /\ result' = [id |-> r.id, pages |-> n]
       /\ inFlight' = inFlight \ {r}
  /\ procStatus' = "complete"
  /\ effectPending' = TRUE
  /\ UNCHANGED <<procFile, procError, viewMode, processed, documentUrl, inputMethod,
                 submitted, resetAt, ppc, outsideProc>>

\* useEffect(() => { if (!result || !result.pages || result.pages.length === 0) return;
\* ...; setProcessedMarkdown(processed) }, [result])
ImageEffect ==
  /\ ppc = "mounted" /\ effectPending
  /\ processed' = IF result = NoResult \/ result.pages = 0 THEN processed
                  ELSE [from |-> result.id, keys |-> 0..(result.pages - 1)]
  /\ effectPending' = FALSE
  /\ UNCHANGED <<procFile, result, procStatus, procError, viewMode, documentUrl, inputMethod,
                 inFlight, submitted, resetAt, ppc, outsideProc>>

ProcNext ==
  \/ SetInputMethod
  \/ SetDocumentUrl
  \/ toggleViewMode
  \/ handleFileChange
  \/ handleClear
  \/ handleUploadRefuses
  \/ handleUpload
  \/ handleUrlSubmitRefuses
  \/ handleUrlSubmit
  \/ UploadTooBig
  \/ UploadFails
  \/ UploadSucceeds
  \/ ProcessFails
  \/ ProcessSucceeds
  \/ ImageEffect

(***************************************************************************)
(* processPdfToDocx (process-pdf.ts) from its call to the settling of its  *)
(* promise: the checks, the calls of the Mistral client, the loop over the *)
(* pages, and the write of the document.                                   *)
(***************************************************************************)
\* the index of the last "/" of p, 0 when there is none
lastSlash(p) ==
  LET at == {k \in 1..Len(p) : p[k] = "/"}
  IN  IF at = {} THEN 0 ELSE CHOOSE k \in at : \A m \in at : m <= k

\* path.dirname(p), for a path without a trailing "/"
dirname(p) ==
  LET k == lastSlash(p)
  IN  IF k = 0 THEN <<".">> ELSE IF k = 1 THEN <<"/">> ELSE SubSeq(p, 1, k - 1)

\* path.basename(p, ext): the part after the last "/", without ext when it
\* ends with ext and is longer than ext
basename(p, ext) ==
  LET b == SubSeq(p, lastSlash(p) + 1, Len(p))
      n == Len(b) - Len(ext)
  IN  IF n > 0 /\ SubSeq(b, n + 1, Len(b)) = ext THEN SubSeq(b, 1, n) ELSE b

\* path.join(dir, name) for a directory that path.dirname returned
pathJoin(dir, name) ==
  IF dir = <<".">> THEN name
  ELSE IF dir = <<"/">> THEN <<"/">> \o name
  ELSE dir \o <<"/">> \o name

DotPdf == <<".", "p", "d", "f">>
ProcessedDocx == <<"_", "p", "r", "o", "c", "e", "s", "s", "e", "d", ".", "d", "o", "c", "x">>

\* path.join(path.dirname(inputPath), `${path.basename(inputPath, '.pdf')}_processed.docx`)
defaultOutput(p) == pathJoin(dirname(p), basename(p, DotPdf) \o ProcessedDocx)

InputPaths == {<<"d", "/", "a", ".", "p", "d", "f">>, <<"a", ".", "p", "d", "f">>, <<"/", "a", ".", "P", "D", "F">>}
OutputPaths == {Undefined, <<>>, <<"o", ".", "d", "o", "c", "x">>}
EnvApiKeys == {Undefined, <<>>, <<"k">>}

\* the responses of client.ocr.process with pages: those of at most one page
RunPageLists == {p \in OcrResponses : Len(p) <= 1}

\* the content of a response of client.ocr.process without pages
RunContents == {<<>>, <<"b">>}

\* JSON.stringify(ocrResponse, null, 2) of the response {content: ''}
StringifiedEmptyContent ==
  <<"{", NL, " ", " ", "\"", "c", "o", "n", "t", "e", "n", "t", "\"", ":", " ", "\"", "\"", NL, "}">>

\* Packer.toBuffer(doc) of new Document({ sections })
Packed(secs) == [docx |-> secs]

\* processPdfToDocx is not running
RunIdle ==
  /\ inputPath = <<>>
  /\ outputPath = Undefined
  /\ inputExists = FALSE
  /\ envApiKey = Undefined
  /\ finalOutputPath = Undefined
  /\ uploadCalls = 0
  /\ ocrCalls = 0
  /\ written = <<>>
  /\ promise = "pending"
  /\ failedAt = "none"
  /\ runPc = "idle"

\* processPdfToDocx(args[0], args[1]) is called
RunInit ==
  /\ inputPath \in InputPaths
  /\ outputPath \in OutputPaths
  /\ inputExists \in BOOLEAN
  /\ envApiKey \in EnvApiKeys
  /\ finalOutputPath = Undefined
  /\ uploadCalls = 0
  /\ ocrCalls = 0
  /\ written = <<>>
  /\ promise = "pending"
  /\ failedAt = "none"
  /\ runPc = "called"

\* a throw that leaves the function
ThrownUncaught(step) ==
  /\ promise' = "rejected"
  /\ failedAt' = step
  /\ runPc' = "returned"

\* catch (error) { console.error('Error:', error); return false }
Thrown(step) ==
  /\ promise' = "false"
  /\ failedAt' = step
  /\ runPc' = "returned"

\* if (!fs.existsSync(inputPath)) throw new Error('Input PDF file does not exist')
InputMissing ==
  /\ runPc = "called"
  /\ ~inputExists
  /\ Thrown("input")
  /\ UNCHANGED <<inputPath, outputPath, inputExists, envApiKey, finalOutputPath, uploadCalls,
                 ocrCalls, written, outsideRun>>

\* if (!apiKey) throw new Error('MISTRAL_API_KEY is not defined in environment variables')
ApiKeyMissing ==
  /\ runPc = "called"
  /\ inputExists
  /\ ~truthy(envApiKey)
  /\ finalOutputPath' = orElse(outputPath, defaultOutput(inputPath))
  /\ Thrown("apiKey")
  /\ UNCHANGED <<inputPath, outputPath, inputExists, envApiKey, uploadCalls, ocrCalls, written,
                 outsideRun>>

\* fs.readFileSync(inputPath) throws
ReadFileSyncThrows ==
  /\ runPc = "called"
  /\ inputExists
  /\ truthy(envApiKey)
  /\ finalOutputPath' = orElse(outputPath, defaultOutput(inputPath))
  /\ Thrown("read")
  /\ UNCHANGED <<inputPath, outputPath, inputExists, envApiKey, uploadCalls, ocrCalls, written,
                 outsideRun>>

\* both checks pass, the file is read, and client.files.upload is called
FilesUpload ==
  /\ runPc = "called"
  /\ inputExists
  /\ truthy(envApiKey)
  /\ finalOutputPath' = orElse(outputPath, defaultOutput(inputPath))
  /\ uploadCalls' = uploadCalls + 1
  /\ runPc' = "upload"
  /\ UNCHANGED <<inputPath, outputPath, inputExists, envApiKey, ocrCalls, written, promise,
                 failedAt, outsideRun>>

\* await client.files.upload(...) rejects
FilesUploadRejects ==
  /\ runPc = "upload"
  /\ Thrown("upload")
  /\ UNCHANGED <<inputPath, outputPath, inputExists, envApiKey, finalOutputPath, uploadCalls,
                 ocrCalls, written, outsideRun>>

\* the upload resolves and client.files.getSignedUrl is called
GetSignedUrl ==
  /\ runPc = "upload"
  /\ runPc' = "signedUrl"
  /\ UNCHANGED <<inputPath, outputPath, inputExists, envApiKey, finalOutputPath, uploadCalls,
                 ocrCalls, written, promise, failedAt, outsideRun>>

\* await client.files.getSignedUrl(...) rejects
GetSignedUrlRejects ==
  /\ runPc = "signedUrl"
  /\ Thrown("signedUrl")
  /\ UNCHANGED <<inputPath, outputPath, inputExists, envApiKey, finalOutputPath, uploadCalls,
                 ocrCalls, written, outsideRun>>

\* the signed URL resolves and client.ocr.process is called
OcrProcess ==
  /\ runPc = "signedUrl"
  /\ ocrCalls' = ocrCalls + 1
  /\ runPc' = "ocr"
  /\ UNCHANGED <<inputPath, outputPath, inputExists, envApiKey, finalOutputPath, uploadCalls,
                 written, promise, failedAt, outsideRun>>

\* await client.ocr.process(...) rejects
OcrProcessRejects ==
  /\ runPc = "ocr"
  /\ Thrown("ocr")
  /\ UNCHANGED <<inputPath, outputPath, inputExists, envApiKey, finalOutputPath, uploadCalls,
                 ocrCalls, written, outsideRun>>

\* the response has pages: const sections = [...], and the forEach starts
OcrResolvesPages ==
  /\ runPc = "ocr"
  /\ ocrPages' \in RunPageLists
  /\ pageIdx' = 1
  /\ imgIdx' = 0
  /\ pageChildren' = <<>>
  /\ sections' = <<[children |-> <<DocumentAnalysis>>]>>
  /\ cpc' = "pages"
  /\ runPc' = "build"
  /\ UNCHANGED <<inputPath, outputPath, inputExists, envApiKey, finalOutputPath, uploadCalls,
                 ocrCalls, written, promise, failedAt, outsideRunCli>>

\* the response has no pages:
\* convertMarkdownToParagraphs(ocrResponse.content || JSON.stringify(ocrResponse, null, 2))
OcrResolvesContent ==
  /\ runPc = "ocr"
  /\ \E content \in RunContents :
       /\ markdown' = orElse(content, StringifiedEmptyContent)
       /\ lines' = split(orElse(content, StringifiedEmptyContent))
  /\ i' = 1
  /\ paragraphs' = <<>>
  /\ inList' = FALSE
  /\ listItems' = <<>>
  /\ producedBy' = <<>>
  /\ itemLines' = <<>>
  /\ pc' = "loop"
  /\ sections' = <<[children |-> <<DocumentAnalysis>>]>>
  /\ cpc' = "content"
  /\ runPc' = "build"
  /\ UNCHANGED <<ocrPages, pageIdx, imgIdx, pageChildren>>
  /\ UNCHANGED <<inputPath, outputPath, inputExists, envApiKey, finalOutputPath, uploadCalls,
                 ocrCalls, written, promise, failedAt, outsideRunCliConv>>

\* sections.push({ properties: {}, children: formattedParagraphs })
PushContentSection ==
  /\ cpc = "content"
  /\ pc = "done"
  /\ sections' = Append(sections, [children |-> paragraphs])
  /\ cpc' = "done"
  /\ UNCHANGED <<ocrPages, pageIdx, imgIdx, pageChildren, outsideCli>>

\* new Document({ sections }), and Packer.toBuffer(doc) is called
ToBuffer ==
  /\ runPc = "build"
  /\ cpc = "done"
  /\ runPc' = "toBuffer"
  /\ UNCHANGED <<inputPath, outputPath, inputExists, envApiKey, finalOutputPath, uploadCalls,
                 ocrCalls, written, promise, failedAt, outsideRun>>

\* await Packer.toBuffer(doc) rejects
ToBufferRejects ==
  /\ runPc = "toBuffer"
  /\ Thrown("toBuffer")
  /\ UNCHANGED <<inputPath, outputPath, inputExists, envApiKey, finalOutputPath, uploadCalls,
                 ocrCalls, written, outsideRun>>

\* fs.writeFileSync(finalOutputPath, buffer) throws
WriteFileSyncThrows ==
  /\ runPc = "toBuffer"
  /\ Thrown("write")
  /\ UNCHANGED <<inputPath, outputPath, inputExists, envApiKey, finalOutputPath, uploadCalls,
                 ocrCalls, written, outsideRun>>

\* fs.writeFileSync(finalOutputPath, buffer); return true
WriteFileSync ==
  /\ runPc = "toBuffer"
  /\ written' = Append(written, [path |-> finalOutputPath, data |-> Packed(sections)])
  /\ promise' = "true"
  /\ runPc' = "returned"
  /\ UNCHANGED <<inputPath, outputPath, inputExists, envApiKey, finalOutputPath, uploadCalls,
                 ocrCalls, failedAt, outsideRun>>

RunNext ==
  \/ InputMissing
  \/ ApiKeyMissing
  \/ ReadFileSyncThrows
  \/ FilesUpload
  \/ FilesUploadRejects
  \/ GetSignedUrl
  \/ GetSignedUrlRejects
  \/ OcrProcess
  \/ OcrProcessRejects
  \/ OcrResolvesPages
  \/ OcrResolvesContent
  \/ CliNext
  \/ PushContentSection
  \/ ToBuffer
  \/ ToBufferRejects
  \/ WriteFileSyncThrows
  \/ WriteFileSync

Init == ConvInit /\ SpliceIdle /\ RenderIdle /\ ChatIdle /\ UploadIdle /\ CliIdle /\ ProcIdle /\ RunIdle

Next == ConvNext

\* convertMarkdownToParagraphs on one markdown text
Spec == Init /\ [][Next]_vars

\* the image effect on one page
SpliceStart == SpliceInit /\ ConvIdle /\ RenderIdle /\ ChatIdle /\ UploadIdle /\ CliIdle /\ ProcIdle /\ RunIdle

SpliceSpec == SpliceStart /\ [][SpliceNext]_vars

\* the image renderer on one image
RenderStart == RenderInit /\ ConvIdle /\ SpliceIdle /\ ChatIdle /\ UploadIdle /\ CliIdle /\ ProcIdle /\ RunIdle

RenderSpec == RenderStart /\ [][RenderNext]_vars

\* one DocumentChat and the route behind it
ChatStart == ChatInit /\ ConvIdle /\ SpliceIdle /\ RenderIdle /\ UploadIdle /\ CliIdle /\ ProcIdle /\ RunIdle

ChatSpec == ChatStart /\ [][ChatNext]_vars

\* one request to POST /api/upload
UploadStart == UploadInit /\ ConvIdle /\ SpliceIdle /\ RenderIdle /\ ChatIdle /\ CliIdle /\ ProcIdle /\ RunIdle

UploadSpec == UploadStart /\ [][UploadNext]_vars

\* processPdfToDocx on the pages of one OCR response
CliStart == CliInit /\ ConvIdle /\ SpliceIdle /\ RenderIdle /\ ChatIdle /\ UploadIdle /\ ProcIdle /\ RunIdle

CliSpec == CliStart /\ [][CliNext]_vars

(***************************************************************************)
(* Claims about convertMarkdownToParagraphs.                               *)
(***************************************************************************)
Returned == pc = "done"

Hashes(k) == [j \in 1..k |-> "#"]

\* the indices of the returned paragraphs of one kind
OfKind(kind) == {j \in DOMAIN paragraphs : paragraphs[j].kind = kind}

\* C1: a single line of k in {1,2,3} '#', one space and a text s without a
\* newline returns exactly one block, the heading of level k with text s.
C1_HeadingOfLevelK ==
  Returned =>
    \A k \in 1..3 :
      (startsWith(markdown, Hashes(k) \o <<" ">>) /\ indexOf(markdown, <<NL>>, 1) = 0)
        => /\ Len(paragraphs) = 1
           /\ paragraphs[1].kind = "heading"
           /\ paragraphs[1].level = k
           /\ paragraphs[1].text = SubSeq(markdown, k + 2, Len(markdown))

\* the heading line "# # " returned a heading whose text still holds "# "
C1_Witness ==
  /\ Returned
  /\ markdown = <<"#", " ", "#", " ">>
  /\ paragraphs[1].text = <<"#", " ">>

\* the last line that is empty or of white space only; 0 when there is none
LastBlank ==
  LET B == {j \in DOMAIN lines : trimIsEmpty(lines[j])}
  IN  IF B = {} THEN 0 ELSE CHOOSE j \in B : \A h \in B : h <= j

BulletLines == {j \in DOMAIN lines : Len(lines[j]) >= 2 /\ lines[j][1] \in {"-", "*"} /\ lines[j][2] = " "}

\* C2: n >= 1 bullet lines followed by a blank line yield exactly n bullet
\* paragraphs, contiguous and in source order, each the line without its
\* marker, and only the n-th has the spacing after a list.
C2_ListFlushedOnBlankLine ==
  Returned =>
    \A n \in 1..(Len(lines) - 1) :
      ( /\ \A j \in 1..n : j \in BulletLines
        /\ trimIsEmpty(lines[n + 1])
        /\ \A j \in (n + 2)..Len(lines) : j \notin BulletLines )
      => /\ OfKind("bullet") = 1..n
         /\ \A j \in 1..n :
              /\ paragraphs[j].text = SubSeq(lines[j], 3, Len(lines[j]))
              /\ (paragraphs[j].after = 100) <=> (j = n)

\* "- a\n* b\n" returned its two items
C2_Witness ==
  /\ Returned
  /\ markdown = <<"-", " ", "a", "\n", "*", " ", "b", "\n">>
  /\ OfKind("bullet") = {1, 2}

\* C3: bullet lines with no blank line after them are lost: the list is
\* still pending at the return, and the bullet paragraphs returned are only
\* those of the bullet lines before the last blank line.
C3_TrailingListLost ==
  Returned =>
    ((\E j \in BulletLines : j > LastBlank)
       => /\ inList
          /\ Len(listItems) = Cardinality({j \in BulletLines : j > LastBlank})
          /\ Cardinality(OfKind("bullet")) = Cardinality({j \in BulletLines : j < LastBlank}))

\* "- a\n- a" returned nothing at all
C3_Witness ==
  /\ Returned
  /\ markdown = <<"-", " ", "a", "\n", "-", " ", "a">>
  /\ paragraphs = <<>>
  /\ Len(listItems) = 2


(***************************************************************************)
(* Emphasis spans, stated by position: a span of marker m opens at the     *)
(* first place, at or after the end of the span before it, where m stands  *)
(* and stands again later on the line; it closes at the first such place.  *)
(***************************************************************************)
Least(S) == CHOOSE x \in S : \A y \in S : x <= y

ClosesOf(s, m, p) ==
  {q \in (p + Len(m))..Len(s) :
     /\ HasAt(s, m, q)
     /\ \A x \in (p + Len(m))..(q - 1) : s[x] \notin LineTerminators}

OpensFrom(s, m, p) == {r \in p..Len(s) : HasAt(s, m, r) /\ ClosesOf(s, m, r) # {}}

\* the spans as pairs <<opening position, closing position>>, left to right
RECURSIVE SpansFrom(_, _, _)
SpansFrom(s, m, p) ==
  IF OpensFrom(s, m, p) = {} THEN <<>>
  ELSE LET r == Least(OpensFrom(s, m, p))
           q == Least(ClosesOf(s, m, r))
       IN  <<(<<r, q>>)>> \o SpansFrom(s, m, q + Len(m))

SpanTexts(s, m) ==
  LET sp == SpansFrom(s, m, 1)
  IN  [k \in 1..Len(sp) |-> SubSeq(s, sp[k][1] + Len(m), sp[k][2] - 1)]

\* s without its spans, markers included
RECURSIVE Keep(_, _, _)
Keep(s, x, covered) ==
  IF x > Len(s) THEN <<>>
  ELSE (IF x \in covered THEN <<>> ELSE <<s[x]>>) \o Keep(s, x + 1, covered)

WithoutSpans(s, m) ==
  LET sp == SpansFrom(s, m, 1)
  IN  Keep(s, 1, UNION {sp[k][1]..(sp[k][2] + Len(m) - 1) : k \in DOMAIN sp})

\* a line that is not blank, not a heading and not a bullet
IsParagraphLine(l) ==
  /\ \E x \in DOMAIN l : l[x] \notin WhiteSpace
  /\ ~startsWith(l, <<"#", " ">>)
  /\ ~startsWith(l, <<"#", "#", " ">>)
  /\ ~startsWith(l, <<"#", "#", "#", " ">>)
  /\ ~(Len(l) >= 2 /\ l[1] \in {"*", "-"} /\ l[2] = " ")

BoldRunsOf(l) ==
  LET b == SpanTexts(l, <<"*", "*">>)
  IN  [k \in DOMAIN b |-> [text |-> b[k], bold |-> TRUE, italics |-> FALSE]]

ItalicRunsOf(l) ==
  LET c == SpanTexts(WithoutSpans(l, <<"*", "*">>), <<"*">>)
  IN  [k \in DOMAIN c |-> [text |-> c[k], bold |-> FALSE, italics |-> TRUE]]

LeftoverOf(l) == WithoutSpans(WithoutSpans(l, <<"*", "*">>), <<"*">>)

PlainRunOf(l) == <<[text |-> LeftoverOf(l), bold |-> FALSE, italics |-> FALSE]>>

ExampleLine == <<"*", "*", "B", "o", "l", "d", "*", "*", " ", "a", "n", "d", " ", "*", "i", "t", "a", "l", "i", "c", "*", " ", "t", "e", "x", "t">>

ExampleRuns ==
  << [text |-> <<"B", "o", "l", "d">>, bold |-> TRUE, italics |-> FALSE],
     [text |-> <<"i", "t", "a", "l", "i", "c">>, bold |-> FALSE, italics |-> TRUE],
     [text |-> <<" ", "a", "n", "d", " ", " ", "t", "e", "x", "t">>, bold |-> FALSE, italics |-> FALSE] >>

\* the step at a paragraph line appends one paragraph of the given runs
EmitsRuns(runs) ==
  /\ Len(paragraphs') = Len(paragraphs) + 1
  /\ SubSeq(paragraphs', 1, Len(paragraphs)) = paragraphs
  /\ paragraphs'[Len(paragraphs')].kind = "runs"
  /\ paragraphs'[Len(paragraphs')].runs = runs

\* C4 as stated: a paragraph line emits one paragraph whose runs are the
\* bold spans, then the italic spans of what remains, then one plain run
\* holding what remains after both removals, whatever that text is.
C4_AlwaysOnePlainRun ==
  [][(AtLine /\ IsParagraphLine(line))
       => EmitsRuns(BoldRunsOf(line) \o ItalicRunsOf(line) \o PlainRunOf(line))]_vars

\* C4, amended: the plain run is there only when the text that remains has
\* a character that is not white space.
C4_BoldItalicThenLeftover ==
  [][(AtLine /\ IsParagraphLine(line))
       => /\ EmitsRuns(BoldRunsOf(line) \o ItalicRunsOf(line)
                       \o (IF \E x \in DOMAIN LeftoverOf(line) : LeftoverOf(line)[x] \notin WhiteSpace
                           THEN PlainRunOf(line) ELSE <<>>))
          /\ (line = ExampleLine => paragraphs'[Len(paragraphs')].runs = ExampleRuns)]_vars

\* the example line was converted, alone, into its three runs
C4_Witness ==
  /\ Returned
  /\ markdown = ExampleLine
  /\ Len(paragraphs) = 1
  /\ paragraphs[1].runs = ExampleRuns

\* the blank-line example and what it returns
BlankExample == <<"a", "\n", "\n", "b">>

\* C5: a blank line emits exactly one empty paragraph when no list is
\* pending; when a list is pending it emits the pending items only, with no
\* empty paragraph, and clears the list; "a\n\nb" returns a, empty, b.
C5_BlankLineSpacerOrFlush ==
  [][/\ (AtLine /\ \A x \in DOMAIN line : line[x] \in WhiteSpace)
        => /\ inList
              => /\ Len(paragraphs') = Len(paragraphs) + Len(listItems)
                 /\ SubSeq(paragraphs', 1, Len(paragraphs)) = paragraphs
                 /\ \A k \in 1..Len(listItems) :
                      /\ paragraphs'[Len(paragraphs) + k].kind = "bullet"
                      /\ paragraphs'[Len(paragraphs) + k].text = listItems[k]
                 /\ Len(listItems) > 0
                 /\ listItems' = <<>>
                 /\ ~inList'
           /\ ~inList
              => /\ Len(paragraphs') = Len(paragraphs) + 1
                 /\ SubSeq(paragraphs', 1, Len(paragraphs)) = paragraphs
                 /\ paragraphs'[Len(paragraphs')].kind = "empty"
                 /\ UNCHANGED <<inList, listItems>>
     /\ (markdown = BlankExample /\ pc' = "done")
        => /\ [k \in DOMAIN paragraphs' |-> paragraphs'[k].kind] = <<"runs", "empty", "runs">>
           /\ paragraphs'[1].runs = <<[text |-> <<"a">>, bold |-> FALSE, italics |-> FALSE]>>
           /\ paragraphs'[3].runs = <<[text |-> <<"b">>, bold |-> FALSE, italics |-> FALSE]>>]_vars

\* "- \n\n": the first blank line ended the pending list without a spacer,
\* the second one, with no list pending, emitted the spacer
C5_Witness ==
  /\ Returned
  /\ markdown = <<"-", " ", "\n", "\n">>
  /\ [k \in DOMAIN paragraphs |-> paragraphs[k].kind] = <<"bullet", "empty">>

\* C6: the paragraphs of runs returned are as many as the lines that are
\* not blank, not headings and not bullets.
C6_OneParagraphPerTextLine ==
  Returned =>
    Cardinality(OfKind("runs")) = Cardinality({j \in DOMAIN lines : IsParagraphLine(lines[j])})

\* two text lines around a heading and inside a pending list
C6_Witness ==
  /\ Returned
  /\ markdown = <<"-", " ", "a", "\n", "a", "\n", "*", " ", "b">>
  /\ Cardinality(OfKind("runs")) = 1
  /\ Len(paragraphs) = 1


\* how many of the branches of the loop body take the line
CasesTaking ==
  LET e == << atHeading1, atHeading2, atHeading3, atListLine, atTextLine,
              atEndOfList, atBlankLine >>
  IN  Cardinality({k \in DOMAIN e : e[k]})

\* C7: the conversion is total: every line is taken by exactly one branch
\* (heading, list accumulation, paragraph, list flush, blank spacer); past
\* the last line the function returns; every step of the loop moves to the
\* next line, so the loop ends after as many steps as there are lines.
C7_TotalOneCasePerLine ==
  /\ [](AtLine => (CasesTaking = 1 /\ ~atReturn))
  /\ []((pc = "loop" /\ ~AtLine) => (i = Len(lines) + 1 /\ atReturn /\ CasesTaking = 0))
  /\ [](Returned => i = Len(lines) + 1)
  /\ [][(pc = "loop" /\ AtLine => (i' = i + 1 /\ pc' = "loop"))
         /\ (pc = "loop" /\ ~AtLine => pc' = "done")]_vars

\* a line of unbalanced markers only was converted and returned
C7_Witness ==
  /\ Returned
  /\ markdown = <<"*", "*", "*">>
  /\ Len(paragraphs) = 1
  /\ i = Len(lines) + 1


(***************************************************************************)
(* Claims about the image effect.                                          *)
(***************************************************************************)
Spliced == spc = "done"

\* s with every occurrence of pat replaced by the text by, taken as it is
RECURSIVE SubstituteAll(_, _, _)
SubstituteAll(s, pat, by) ==
  LET k == indexOf(s, pat, 1)
  IN  IF k = 0 THEN s
      ELSE SubSeq(s, 1, k - 1) \o by
           \o SubstituteAll(SubSeq(s, k + Len(pat), Len(s)), pat, by)

\* the payload an image record carries, if any
PayloadOf(r) ==
  IF r.image_base64 \notin {Undefined, Null, <<>>} THEN r.image_base64 ELSE r.imageBase64

\* no payload: absent, null, empty, or of white space only
IsBlankPayload(v) == v \in {Undefined, Null} \/ \A x \in DOMAIN v : v[x] \in WhiteSpace

\* the inline data reference R of a payload b
DataReference(b) ==
  IF Len(b) >= 5 /\ SubSeq(b, 1, 5) = <<"d", "a", "t", "a", ":">>
  THEN b
  ELSE <<"d", "a", "t", "a", ":", "i", "m", "a", "g", "e", "/", "j", "p", "e", "g",
         ";", "b", "a", "s", "e", "6", "4", ",">> \o b

Target(id) == <<"]", "(">> \o id \o <<")">>

ExactRef(id) == <<"!", "[">> \o id \o Target(id)

Occurrences(s, pat) == {q \in 1..Len(s) : HasAt(s, pat, q)}

\* every reference to the id in the text is the exact pair ![id](id)
OnlyExactRefs(s, id) ==
  \A q \in Occurrences(s, Target(id)) : HasAt(s, <<"!", "[">> \o id, q - Len(id) - 2)

\* every target (id) in the text closes a reference opened on its line
OnlyWholeRefs(s, id) ==
  \A q \in Occurrences(s, Target(id)) :
    \E p \in 1..(q - 2) :
      /\ HasAt(s, <<"!", "[">>, p)
      /\ \A x \in p..q : s[x] \notin LineTerminators

\* the page has one image record, and it carries a payload
OneImageWithPayload == Len(images) = 1 /\ ~IsBlankPayload(PayloadOf(images[1]))

HasDollar(s) == \E x \in DOMAIN s : s[x] = "$"

\* C8: for a page whose image record has id i and a payload b, every
\* ![i](i) of the page markdown becomes ![i](R), R the data reference of
\* b (b itself when it starts with data:), and the other text is unchanged.
C8_ExactReferenceSpliced ==
  (Spliced /\ OneImageWithPayload /\ OnlyExactRefs(pageMarkdown, images[1].id))
    => processedMarkdown =
         SubstituteAll(pageMarkdown, ExactRef(images[1].id),
                       <<"!", "[">> \o images[1].id
                         \o Target(DataReference(PayloadOf(images[1]))))

\* C8 holds of every page whose image id has no dollar sign
C8_ExactReferenceSplicedPlainId ==
  (Spliced /\ OneImageWithPayload /\ OnlyExactRefs(pageMarkdown, images[1].id)
     /\ ~HasDollar(images[1].id))
    => processedMarkdown =
         SubstituteAll(pageMarkdown, ExactRef(images[1].id),
                       <<"!", "[">> \o images[1].id
                         \o Target(DataReference(PayloadOf(images[1]))))

\* C9: when every image record of the page is without payload (absent,
\* null, empty, white space only), the processed markdown is the page
\* markdown, character for character.
C9_UnresolvedLeftUnchanged ==
  (Spliced /\ \A x \in DOMAIN images :
                 IsBlankPayload(images[x].image_base64) /\ IsBlankPayload(images[x].imageBase64))
    => processedMarkdown = pageMarkdown

\* a page with ![i](i) and one record of id i whose payload is one space
C9_Witness ==
  /\ Spliced
  /\ images = <<[id |-> <<"i">>, image_base64 |-> <<" ">>, imageBase64 |-> Undefined]>>
  /\ pageMarkdown = ExactRef(<<"i">>)
  /\ processedMarkdown = pageMarkdown
  /\ imageMap = <<>>

\* C10: in components/ocr-document.tsx, for an image record with id i and
\* a payload, every ![alt](i), whatever the alt text, becomes ![alt](R):
\* the alt text is kept as it is and only the target is replaced.
C10_LooseReferenceSpliced ==
  (Spliced /\ component = "ocr-document" /\ OneImageWithPayload
     /\ OnlyWholeRefs(pageMarkdown, images[1].id))
    => processedMarkdown =
         SubstituteAll(pageMarkdown, Target(images[1].id),
                       Target(DataReference(PayloadOf(images[1]))))

\* C10 holds of every page with no dollar sign in its markdown
C10_LooseReferenceSplicedNoDollar ==
  (Spliced /\ component = "ocr-document" /\ OneImageWithPayload
     /\ OnlyWholeRefs(pageMarkdown, images[1].id) /\ ~HasDollar(pageMarkdown))
    => processedMarkdown =
         SubstituteAll(pageMarkdown, Target(images[1].id),
                       Target(DataReference(PayloadOf(images[1]))))


(***************************************************************************)
(* Claims about customRenderers.img.                                       *)
(***************************************************************************)
Rendered == rpc = "returned"

\* a target that starts with 'data:image/' or with 'data:application/'
IsInlineData(src) ==
  src # Undefined /\ (HasAt(src, DataImage, 1) \/ HasAt(src, DataApplication, 1))

HttpsTarget == <<"h", "t", "t", "p", "s", ":", "/", "/", "i">>

\* C11: the image renderer returns an <img> element only for a target that
\* starts with 'data:image/' or 'data:application/', and that element has
\* the target as its src; for every other target (an identifier left
\* unresolved, a link to another host, no target) it returns the text
\* placeholder '[Image not available: alt]', an element without src.
C11_ImgOnlyForInlineData ==
  Rendered =>
    /\ (element.tag = "img") <=> IsInlineData(props.src)
    /\ element.tag = "img" => element.src = props.src
    /\ element.tag # "img" =>
         /\ element.tag = "span"
         /\ element.src = Undefined
         /\ element.text = <<"[Image not available: ">>
                              \o (IF props.alt = Undefined THEN <<>> ELSE props.alt)
                              \o <<"]">>

\* a link to another host and an unresolved identifier have been rendered
\* as placeholders
C11_Witness ==
  /\ Rendered
  /\ props.src \in {HttpsTarget, IdI}
  /\ element.tag = "span"

(***************************************************************************)
(* Claims about POST /api/chat and DocumentChat.                           *)
(***************************************************************************)
\* the chat service threw an Error for the request in flight and the route
\* has responded
ServiceThrew == chatPc = "responded" /\ served.kind = "throwsError"

\* a step in which handleSubmit resumes after its fetch
Resumes == chatPc = "responded" /\ chatPc' = "idle"

\* C12 as stated: when the chat service call throws an Error with message
\* m, the route responds with status 500 and the body {error: m}, and
\* handleSubmit then shows exactly m as the error, appends no assistant
\* message and leaves the user message it appended in place.
C12_ErrorShownVerbatim ==
  [][ServiceThrew /\ Resumes =>
       /\ response.status = 500
       /\ response.error = served.value
       /\ error' = served.value
       /\ messages' = messages
       /\ messages # <<>>
       /\ messages[Len(messages)] = [role |-> "user", content |-> request.query]]_vars

\* C12: when the chat service call throws an Error with message m, the
\* route responds with status 500 and the body {error: m}; handleSubmit
\* then appends no assistant message, leaves the user message it appended in
\* place, and shows m as the error when m is not empty, and 'Failed to get
\* response' when m is the empty string.
C12_ErrorShownVerbatimUnlessEmpty ==
  [][ServiceThrew /\ Resumes =>
       /\ response.status = 500
       /\ response.error = served.value
       /\ error' = (IF served.value = <<>> THEN <<"Failed to get response">> ELSE served.value)
       /\ messages' = messages
       /\ messages # <<>>
       /\ messages[Len(messages)] = [role |-> "user", content |-> request.query]]_vars

\* the service threw an Error with message "m", and the chat shows "m" under
\* the question
C12_Witness ==
  /\ chatPc = "idle"
  /\ served = [kind |-> "throwsError", value |-> <<"m">>]
  /\ response.status = 500
  /\ error = <<"m">>
  /\ messages = <<[role |-> "user", content |-> <<"q">>]>>

(***************************************************************************)
(* Claims about POST /api/upload.                                          *)
(***************************************************************************)
\* C13 as stated: the route rejects every PDF file larger than 10 MB
\* (10 * 1024 * 1024 bytes) with status 413 and the error 'File size exceeds
\* the 10MB limit', without forwarding it to the OCR service, and a PDF
\* file of at most that size passes the size check.
C13_RejectsAboveTenMegabytes ==
  (upc = "done" /\ file # NoFile /\ file.type = <<"application/pdf">>) =>
    IF file.size > 10 * 1024 * 1024
    THEN /\ uploadResponse.status = 413
         /\ uploadResponse.error = <<"File size exceeds the 10MB limit">>
         /\ ~forwarded
    ELSE uploadResponse.status # 413

\* the limit the route applies: a PDF file is rejected with 413 exactly
\* when it is larger than 80 * 1024 * 1024 bytes, and is then not forwarded
C13_RejectsAboveEightyMegabytes ==
  (upc = "done" /\ file # NoFile /\ file.type = <<"application/pdf">>) =>
    IF file.size > 80 * 1024 * 1024
    THEN /\ uploadResponse.status = 413
         /\ uploadResponse.error = <<"File size exceeds the 10MB limit">>
         /\ ~forwarded
    ELSE uploadResponse.status # 413

(***************************************************************************)
(* Claims about processPdfToDocx.                                          *)
(***************************************************************************)
\* the pages whose section has been pushed
PushedPages == 1..(Len(sections) - 1)

\* an image record with a payload that is not empty, under either name
CarriesPayload(r) ==
  \E v \in {r.image_base64, r.imageBase64} : v \notin {Undefined, Null, <<>>}

\* an image record whose payload has a comma, as 'data:...;base64,<data>' has
CarriesDataUri(r) ==
  \E v \in {r.image_base64, r.imageBase64} :
    v \notin {Undefined, Null, <<>>} /\ \E x \in DOMAIN v : v[x] = ","

\* the section of page k is the 'Page k' heading, then n image paragraphs,
\* then paragraphs that are no image paragraphs
SectionHasImages(k, n) ==
  LET ch == sections[k + 1].children
  IN  /\ Len(ch) >= 1 + n
      /\ ch[1].kind = "heading"
      /\ ch[1].text = <<"P", "a", "g", "e", " ", Digits[k + 1]>>
      /\ \A x \in DOMAIN ch : (ch[x].kind = "image") <=> (x \in 2..(n + 1))

\* C14 as stated: for every page, each image record with a payload that is
\* not empty (a 'data:...;base64,<data>' URI or bare base64 text, under
\* image_base64 or imageBase64) contributes exactly one image paragraph to
\* the section of the page, after the 'Page N' heading and before the text
\* paragraphs of the page, and a record without payload contributes none.
C14_ImageParagraphPerPayload ==
  \A k \in PushedPages :
    SectionHasImages(k, Cardinality({x \in DOMAIN ocrPages[k].images :
                                       CarriesPayload(ocrPages[k].images[x])}))

\* what the code does: only the records whose payload holds a comma, as a
\* data URI does, contribute an image paragraph; bare base64 text gives none
C14_ImageParagraphPerDataUri ==
  \A k \in PushedPages :
    SectionHasImages(k, Cardinality({x \in DOMAIN ocrPages[k].images :
                                       CarriesDataUri(ocrPages[k].images[x])}))

(***************************************************************************)
(* Claims about the order of the paragraphs and about the list state.      *)
(***************************************************************************)
\* C15 as stated: the paragraphs are returned in the order of the lines
\* they come from: for lines a < b, every paragraph produced from line a is
\* before every paragraph produced from line b, also when line a is a
\* bullet line and line b a heading or paragraph line before the blank line
\* that ends the list.
C15_OutputInSourceOrder ==
  \A x, y \in DOMAIN producedBy : x < y => producedBy[x] <= producedBy[y]

\* the order the code keeps: the paragraphs that are not bullets are in
\* the order of their lines, and so are the bullets; a heading or paragraph
\* line inside a pending list is returned before the items pending
C15_OutputInSourceOrderPerKind ==
  \A x, y \in DOMAIN producedBy :
    (x < y /\ ((paragraphs[x].kind = "bullet") <=> (paragraphs[y].kind = "bullet")))
      => producedBy[x] <= producedBy[y]

\* a line of white space only, the line that ends a list
IsBlank(l) == \A x \in DOMAIN l : l[x] \in {" ", "\t", "\r"}

\* a line that starts with one, two or three '#' and a space
IsHeadingLine(l) ==
  \E k \in 1..3 : Len(l) > k /\ l[k + 1] = " " /\ \A x \in 1..k : l[x] = "#"

\* the bullet lines before line n with no blank line between them and line n:
\* the lines whose items are pending when the loop is at line n
PendingLines(n) ==
  {j \in BulletLines : j < n /\ \A x \in j..(n - 1) : ~IsBlank(lines[x])}

\* the x-th line of a set of lines
NthOf(S, x) == CHOOSE j \in S : Cardinality({q \in S : q <= j}) = x

\* the paragraphs pushed by the step
Pushed == SubSeq(paragraphs', Len(paragraphs) + 1, Len(paragraphs'))

\* C16: a heading line met while a list is pending pushes its heading at
\* once and leaves the list state as it is (inList stays true, the items are
\* neither pushed nor cleared); at the next blank line the pending items,
\* those of the bullet lines before the heading and of the bullet lines
\* after it, are pushed as one group, in the order of their lines, the last
\* of them marked as the last of the group.
C16_HeadingKeepsPendingList ==
  /\ [][(AtLine /\ IsHeadingLine(line) /\ inList /\ listItems # <<>>) =>
          /\ Len(paragraphs') = Len(paragraphs) + 1
          /\ SubSeq(paragraphs', 1, Len(paragraphs)) = paragraphs
          /\ paragraphs'[Len(paragraphs')].kind = "heading"
          /\ inList'
          /\ listItems' = listItems]_vars
  /\ [][(AtLine /\ IsBlank(line) /\ inList /\ listItems # <<>>) =>
          /\ SubSeq(paragraphs', 1, Len(paragraphs)) = paragraphs
          /\ Len(Pushed) = Cardinality(PendingLines(i))
          /\ \A x \in DOMAIN Pushed :
               /\ Pushed[x].kind = "bullet"
               /\ Pushed[x].text = SubSeq(lines[NthOf(PendingLines(i), x)], 3,
                                          Len(lines[NthOf(PendingLines(i), x)]))
               /\ Pushed[x].after = (IF x = Len(Pushed) THEN 100 ELSE 0)
          /\ ~inList'
          /\ listItems' = <<>>]_vars

\* "- a", "# a", "* b", "", "b": the heading is first, then the two items as
\* one group, then the paragraph
C16_Witness ==
  /\ Returned
  /\ lines = << <<"-", " ", "a">>, <<"#", " ", "a">>, <<"*", " ", "b">>, <<>>, <<"b">> >>
  /\ Len(paragraphs) = 4
  /\ paragraphs[1].kind = "heading"
  /\ paragraphs[2].kind = "bullet" /\ paragraphs[2].text = <<"a">> /\ paragraphs[2].after = 0
  /\ paragraphs[3].kind = "bullet" /\ paragraphs[3].text = <<"b">> /\ paragraphs[3].after = 100
  /\ paragraphs[4].kind = "runs"

(***************************************************************************)
(* Claims about the runs of a paragraph line.                              *)
(***************************************************************************)
\* the runs of the paragraph the step pushes
PushedRuns == paragraphs'[Len(paragraphs')].runs

\* the runs that are neither bold nor italic
PlainRuns(runs) == {x \in DOMAIN runs : ~runs[x].bold /\ ~runs[x].italics}

\* the last run, and no other, is plain and holds the text
EndsWithPlain(runs, text) ==
  /\ runs # <<>>
  /\ PlainRuns(runs) = {Len(runs)}
  /\ runs[Len(runs)].text = text

\* C17 as stated: after the bold and italic spans are taken out of a
\* paragraph line, the text left over is pushed unmodified as the last run,
\* a plain one, whenever it is not empty, also when it holds spaces only;
\* there is no plain run only when the text left over is empty.
C17_PlainRunUnlessEmpty ==
  [][(AtLine /\ IsParagraphLine(line)) =>
       IF LeftoverOf(line) # <<>>
       THEN EndsWithPlain(PushedRuns, LeftoverOf(line))
       ELSE PlainRuns(PushedRuns) = {}]_vars

\* C17: after the bold and italic spans are taken out of a paragraph line,
\* the text left over is pushed unmodified as the last run, a plain one,
\* when it holds a character that is not white space; there is no plain run
\* when the text left over is empty or of white space only.
C17_PlainRunUnlessBlank ==
  [][(AtLine /\ IsParagraphLine(line)) =>
       IF \E x \in DOMAIN LeftoverOf(line) : LeftoverOf(line)[x] \notin {" ", "\t", "\r"}
       THEN EndsWithPlain(PushedRuns, LeftoverOf(line))
       ELSE PlainRuns(PushedRuns) = {}]_vars

\* "*a* " was converted, and the space left over gave no run; or " a**"
\* was converted, and its leftover " a" is the last run, unmodified
C17_Witness ==
  /\ Returned
  /\ markdown \in {<<"*", "a", "*", " ">>, <<" ", "a", "*", "*">>}
  /\ Len(paragraphs) = 1
  /\ paragraphs[1].kind = "runs"
  /\ \/ paragraphs[1].runs = <<[text |-> <<"a">>, bold |-> FALSE, italics |-> TRUE]>>
     \/ paragraphs[1].runs = <<[text |-> <<>>, bold |-> FALSE, italics |-> TRUE],
                               [text |-> <<" ", "a">>, bold |-> FALSE, italics |-> FALSE]>>

\* how often character c stands in s, and in the texts of runs
Count(s, c) == Cardinality({x \in DOMAIN s : s[x] = c})

RECURSIVE CountInRuns(_, _)
CountInRuns(runs, c) ==
  IF runs = <<>> THEN 0 ELSE Count(Head(runs).text, c) + CountInRuns(Tail(runs), c)

RECURSIVE TextLength(_)
TextLength(runs) == IF runs = <<>> THEN 0 ELSE Len(Head(runs).text) + TextLength(Tail(runs))

\* the asterisks that delimit the spans of the runs: four for a bold run,
\* two for an italic one
Delimiters(runs) ==
  4 * Cardinality({x \in DOMAIN runs : runs[x].bold})
    + 2 * Cardinality({x \in DOMAIN runs : runs[x].italics})

\* t stands in s as it is
IsSubstring(t, s) == t = <<>> \/ \E q \in DOMAIN s : HasAt(s, t, q)

\* every character of the line is in at most one run and the delimiting
\* asterisks are in none: the runs and the delimiters together take every
\* character at most as often as the line has it
NoCharacterTwice(l, runs) ==
  \A c \in {l[x] : x \in DOMAIN l} \cup UNION {{runs[y].text[x] : x \in DOMAIN runs[y].text} : y \in DOMAIN runs} :
    CountInRuns(runs, c) + (IF c = "*" THEN Delimiters(runs) ELSE 0) <= Count(l, c)

\* with the plain run pushed, the runs and the delimiters are the whole line
LengthsAddUp(l, runs) ==
  PlainRuns(runs) # {} => Len(l) = TextLength(runs) + Delimiters(runs)

\* C18 as stated: on a paragraph line every character ends up in at most
\* one run, the asterisks delimiting a span are in no run, the text of every
\* italic run is a contiguous substring of the line, and with the plain run
\* pushed length(line) = sum of the run text lengths + 4 * bold runs +
\* 2 * italic runs.
C18_RunsPartitionLine ==
  [][(AtLine /\ IsParagraphLine(line)) =>
       /\ NoCharacterTwice(line, PushedRuns)
       /\ LengthsAddUp(line, PushedRuns)
       /\ \A x \in DOMAIN PushedRuns :
            PushedRuns[x].italics => IsSubstring(PushedRuns[x].text, line)]_vars

\* C18: on a paragraph line every character ends up in at most one run, the
\* asterisks delimiting a span are in no run, the text of every bold run is
\* a contiguous substring of the line, the text of every italic run is a
\* contiguous substring of the line with its bold spans taken out, and with
\* the plain run pushed length(line) = sum of the run text lengths +
\* 4 * bold runs + 2 * italic runs.
C18_RunsPartitionLineAfterBold ==
  [][(AtLine /\ IsParagraphLine(line)) =>
       /\ NoCharacterTwice(line, PushedRuns)
       /\ LengthsAddUp(line, PushedRuns)
       /\ \A x \in DOMAIN PushedRuns :
            /\ PushedRuns[x].bold => IsSubstring(PushedRuns[x].text, line)
            /\ PushedRuns[x].italics =>
                 IsSubstring(PushedRuns[x].text, WithoutSpans(line, <<"*", "*">>))]_vars

\* "*a**b**c*" was converted into the bold run "b" and the italic run "ac"
C18_Witness ==
  /\ Returned
  /\ markdown = <<"*", "a", "*", "*", "b", "*", "*", "c", "*">>
  /\ Len(paragraphs) = 1
  /\ paragraphs[1].runs = <<[text |-> <<"b">>, bold |-> TRUE, italics |-> FALSE],
                            [text |-> <<"a", "c">>, bold |-> FALSE, italics |-> TRUE]>>

(***************************************************************************)
(* Claims about the calls of convertMarkdownToParagraphs, one per page.    *)
(***************************************************************************)
NotImage(paragraph) == paragraph.kind # "image"

\* what the call for page k returned: the section of the page without its
\* 'Page k' heading and its image paragraphs
ReturnedFor(k) == Tail(SelectSeq(sections[k + 1].children, NotImage))

\* the argument of the call for page k
ArgumentOf(k) ==
  IF ocrPages[k].markdown \notin {Undefined, Null, <<>>} THEN ocrPages[k].markdown
  ELSE IF ocrPages[k].text \notin {Undefined, Null, <<>>} THEN ocrPages[k].text
  ELSE <<>>

\* the texts of the bullet lines of a markdown text
ItemsOf(text) ==
  {SubSeq(l, 3, Len(l)) :
     l \in {split(text)[x] : x \in {y \in DOMAIN split(text) :
                                      /\ Len(split(text)[y]) >= 2
                                      /\ split(text)[y][1] \in {"-", "*"}
                                      /\ split(text)[y][2] = " "}}}

\* C19: what convertMarkdownToParagraphs returns depends on its argument
\* only: two calls with the same markdown return equal paragraphs, whatever
\* was called before them, and a list left pending at the end of one call
\* gives no item to another call: every bullet returned for a page is an
\* item of a bullet line of that page.
C19_ResultDependsOnArgumentOnly ==
  /\ \A a, b \in PushedPages :
       ArgumentOf(a) = ArgumentOf(b) => ReturnedFor(a) = ReturnedFor(b)
  /\ \A k \in PushedPages : \A x \in DOMAIN ReturnedFor(k) :
       ReturnedFor(k)[x].kind = "bullet" => ReturnedFor(k)[x].text \in ItemsOf(ArgumentOf(k))

\* two pages with the markdown "\n- a": the call for the first ended with
\* the item 'a' pending, and the call for the second returned the same one
\* empty paragraph
C19_Witness ==
  /\ Len(sections) = 3
  /\ ocrPages[1].markdown = <<"\n", "-", " ", "a">>
  /\ ocrPages[2].markdown = <<"\n", "-", " ", "a">>
  /\ Len(ReturnedFor(1)) = 1 /\ ReturnedFor(1)[1].kind = "empty"
  /\ ReturnedFor(2) = ReturnedFor(1)
  /\ inList /\ listItems = << <<"a">> >>

(***************************************************************************)
(* Claims about the two passes of the image effect together.               *)
(***************************************************************************)
Base64Alphabet ==
  {
    "A", "B", "C", "D", "E", "F", "G", "H", "I", "J", "K", "L", "M",
    "N", "O", "P", "Q", "R", "S", "T", "U", "V", "W", "X", "Y", "Z",
    "a", "b", "c", "d", "e", "f", "g", "h", "i", "j", "k", "l", "m",
    "n", "o", "p", "q", "r", "s", "t", "u", "v", "w", "x", "y", "z",
    "0", "1", "2", "3", "4", "5", "6", "7", "8", "9", "+", "/", "=" }

\* the ids of the image records of the page that carry a payload
PayloadIds == {images[x].id : x \in {y \in DOMAIN images : ~IsBlankPayload(PayloadOf(images[y]))}}

\* every payload of the page is base64 text
PayloadsAreBase64 ==
  \A x \in DOMAIN images :
    ~IsBlankPayload(PayloadOf(images[x]))
      => \A y \in DOMAIN PayloadOf(images[x]) : PayloadOf(images[x])[y] \in Base64Alphabet

\* the data references standing as targets in a text
DataTargets(s) == Occurrences(s, <<"]", "(", "d", "a", "t", "a", ":">>)

RECURSIVE SumOver(_, _, _)
SumOver(s, ids, done) ==
  IF ids = done THEN 0
  ELSE LET id == CHOOSE v \in ids \ done : TRUE
       IN  Cardinality(Occurrences(s, Target(id))) + SumOver(s, ids, done \cup {id})

\* a page of components/ocr-document.tsx with base64 payloads whose
\* references to the ids with payload are whole references
SplicedPage ==
  /\ Spliced
  /\ component = "ocr-document"
  /\ PayloadsAreBase64
  /\ \A id \in PayloadIds : OnlyWholeRefs(pageMarkdown, id)

\* every reference to an id with payload has been rewritten, once: none is
\* left, and the text has one data reference for each of them; and the
\* effect run on its own output returns it unchanged
NoDoubleReplacement ==
  /\ \A id \in PayloadIds : Occurrences(processedMarkdown, Target(id)) = {}
  /\ Cardinality(DataTargets(processedMarkdown)) = SumOver(pageMarkdown, PayloadIds, {})
  /\ processPage(component, processedMarkdown, images) = processedMarkdown

\* C20 as stated: with base64 payloads, the exact pass followed by the
\* loose pass for each id rewrites every ![alt](id) of the page exactly
\* once, leaves the data references it inserted intact, and run a second
\* time on its own output changes nothing.
C20_NoDoubleReplacement == SplicedPage => NoDoubleReplacement

\* C20 holds of every page with no dollar sign in its markdown
C20_NoDoubleReplacementNoDollar ==
  (SplicedPage /\ ~HasDollar(pageMarkdown)) => NoDoubleReplacement

\* what the actions compute is what the effect, as one function, returns
C20_EffectAsFunction ==
  Spliced => processedMarkdown = processPage(component, pageMarkdown, images)

(***************************************************************************)
(* Claims about the ids of images taken as literal text.                   *)
(***************************************************************************)
\* the image effect on one page with ids of pattern-special characters
SpecialIdStart == SpecialIdInit /\ ConvIdle /\ RenderIdle /\ ChatIdle /\ UploadIdle /\ CliIdle /\ ProcIdle /\ RunIdle

SpecialIdSpec == SpecialIdStart /\ [][SpliceNext]_vars

\* the text with, for each entry from the n-th on, the references whose
\* target is the id of the entry, character for character, given the data
\* reference of the entry as target: every reference in components/
\* ocr-document.tsx, the exact pairs only in the other component
RECURSIVE LiteralSplice(_, _, _, _)
LiteralSplice(comp, s, entries, n) ==
  IF n > Len(entries) THEN s
  ELSE LiteralSplice(comp,
                     IF comp = "ocr-document"
                     THEN SubstituteAll(s, Target(entries[n].id), Target(entries[n].src))
                     ELSE SubstituteAll(s, ExactRef(entries[n].id),
                                        imageRef(entries[n].id, entries[n].src)),
                     entries, n + 1)

\* C21: an id is matched as literal text in both passes. A page whose ids
\* hold pattern-special characters has the references whose target is an id
\* of the image map rewritten, and every other reference, whose target
\* differs from each id in a character, left as it was.
C21_IdMatchedLiterally ==
  Spliced => processedMarkdown = LiteralSplice(component, pageMarkdown, imageMap, 1)

\* the id "." has its reference rewritten and leaves ![x](x) alone
C21_Witness ==
  /\ Spliced
  /\ component = "ocr-document"
  /\ pageMarkdown = imageRef(IdDot, IdDot) \o imageRef(<<"x">>, <<"x">>)
  /\ Len(images) = 1 /\ images[1].id = IdDot
  /\ processedMarkdown = imageRef(IdDot, JpegPrefix \o <<"b">>) \o imageRef(<<"x">>, <<"x">>)

(***************************************************************************)
(* Claims about image records that share an id, and the order of entries.  *)
(***************************************************************************)
\* the image effect on one page whose records share ids
SharedIdStart == SharedIdInit /\ ConvIdle /\ RenderIdle /\ ChatIdle /\ UploadIdle /\ CliIdle /\ ProcIdle /\ RunIdle

SharedIdSpec == SharedIdStart /\ [][SpliceNext]_vars

\* the records of the page that carry a payload
WithPayload == {x \in DOMAIN images : ~IsBlankPayload(PayloadOf(images[x]))}

\* the last record of its id among those with a payload
IsLastOfId(x) == x \in WithPayload /\ \A y \in WithPayload : images[y].id = images[x].id => y <= x

\* the ids of the records with a payload, in the order of their first record
RECURSIVE IdsInOrder(_, _)
IdsInOrder(imgs, seen) ==
  IF imgs = <<>> THEN seen
  ELSE IdsInOrder(Tail(imgs),
                  IF /\ ~IsBlankPayload(PayloadOf(Head(imgs)))
                     /\ \A x \in DOMAIN seen : seen[x] # Head(imgs).id
                  THEN Append(seen, Head(imgs).id)
                  ELSE seen)

\* the ids of the entries, in the order the entries are applied
MapIds == [x \in DOMAIN imageMap |-> imageMap[x].id]

IsIndexId(id) == isArrayIndex(id)
IsOtherId(id) == ~isArrayIndex(id)

\* every reference to an id with a payload is rewritten to the data
\* reference of the last record of the id: no target (id) is left, there
\* are as many data references of that record as there were references,
\* and no data reference of an earlier record of the id
LaterRecordWins ==
  \A x \in WithPayload :
    IsLastOfId(x) =>
      /\ Occurrences(processedMarkdown, Target(images[x].id)) = {}
      /\ Cardinality(Occurrences(processedMarkdown, Target(DataReference(PayloadOf(images[x])))))
           >= Cardinality(Occurrences(pageMarkdown, Target(images[x].id)))
      /\ \A y \in WithPayload :
           (images[y].id = images[x].id /\ \A z \in WithPayload :
                IsLastOfId(z) => PayloadOf(images[z]) # PayloadOf(images[y]))
             => Occurrences(processedMarkdown, Target(DataReference(PayloadOf(images[y])))) = {}

C23_CopiesEquivalent ==
  Spliced =>
    /\ processPage("ocr-document", pageMarkdown, images)
         = processPage("ocr-document-processor", pageMarkdown, images)
    /\ processPage("ocr-document", pageMarkdown, images)
         = processPage("part_004", pageMarkdown, images)

\* the copies of components/ocr-document.tsx and unnamed/part_004 agree
C23_DocumentAndPart004Agree ==
  Spliced =>
    processPage("ocr-document", pageMarkdown, images)
      = processPage("part_004", pageMarkdown, images)

\* the three copies agree on the pages whose references to ids with a
\* payload are all exact pairs ![id](id)
C23_CopiesAgreeOnExactPairs ==
  (Spliced /\ \A id \in PayloadIds : OnlyExactRefs(pageMarkdown, id))
    => processPage("ocr-document", pageMarkdown, images)
         = processPage("ocr-document-processor", pageMarkdown, images)

(***************************************************************************)
(* Claims about OCRDocumentProcessor.                                      *)
(***************************************************************************)
\* the form of OCRDocumentProcessor, used in any order
ProcStart ==
  ProcInit /\ ConvIdle /\ SpliceIdle /\ RenderIdle /\ ChatIdle /\ UploadIdle /\ CliIdle /\ RunIdle

ProcSpec == ProcStart /\ [][ProcNext]_vars

\* C24 as stated: at most one call of handleUpload or handleUrlSubmit is
\* awaiting a response at any time.
C24_OneSubmissionInFlight == Cardinality(inFlight) <= 1

\* C25 as stated: while no submission has started since the last
\* handleClear or handleFileChange, result is null and procStatus is 'idle',
\* and a result that is shown is of a submission started after it.
C25_NoOutcomeOfEarlierRequest ==
  /\ submitted = resetAt => (result = NoResult /\ procStatus = "idle")
  /\ result # NoResult => result.id > resetAt

\* the keys of processedMarkdown the rendered view reads: those of the
\* pages of the result, or the key 0 for a result without pages
RenderedKeys ==
  IF result = NoResult \/ viewMode # "rendered" THEN {}
  ELSE IF result.pages > 0 THEN processed.keys \cap (0..(result.pages - 1))
  ELSE processed.keys \cap {0}

\* C26 as stated: once the image effect has run, every entry of
\* processedMarkdown that the rendered view shows was computed from the
\* current result.
C26_RenderedFromCurrentResult ==
  (atEvent /\ RenderedKeys # {}) => processed.from = result.id

\* C27 as stated: procStatus 'complete' implies a result and no error, procStatus
\* 'error' implies an error, and DocumentChat is enabled only with a result
\* and no error.
C27_StatusAgreesWithResultAndError ==
  /\ procStatus = "complete" => (result # NoResult /\ procError = Null)
  /\ procStatus = "error" => procError # Null
  /\ chatIsEnabled => (result # NoResult /\ procError = Null)

\* C27 amended: procStatus 'complete' implies a result, procStatus 'error' implies
\* an error, and DocumentChat is enabled only with a result.
C27_StatusAgreesWithResult ==
  /\ procStatus = "complete" => result # NoResult
  /\ procStatus = "error" => procError # Null
  /\ chatIsEnabled => result # NoResult

\* a result is shown as complete, with the message of a refused submission
C27_Witness ==
  /\ procStatus = "complete"
  /\ result # NoResult
  /\ procError = NoUrlEntered
  /\ chatIsEnabled

(***************************************************************************)
(* Claims about the transcript of DocumentChat.                            *)
(***************************************************************************)
\* a step in which handleSubmit starts a request
StartsRequest == ~isLoading /\ isLoading'

\* the sequence a is the beginning of the sequence b
IsPrefix(a, b) == Len(a) <= Len(b) /\ SubSeq(b, 1, Len(a)) = a

\* C28: handleSubmit starts a request only with a query that is not blank,
\* the chat enabled and prepared content, and appends the user message as it
\* starts it; while isLoading is true handleSubmit would return, and no
\* user message is appended; an assistant message is appended right after
\* the user message of the request that it answers; and the transcript only
\* grows at its end.
C28_AppendOnlyOneRequestAtATime ==
  /\ [][StartsRequest =>
          /\ ~trimIsEmpty(query) /\ isEnabled /\ truthy(preparedContent)
          /\ messages' = Append(messages, UserMessage(query))
          /\ request' = [documentContent |-> preparedContent, query |-> query]]_vars
  /\ [](isLoading => submitReturns)
  /\ [][isLoading =>
          \/ messages' = messages
          \/ /\ ~isLoading'
             /\ ok(response)
             /\ messages[Len(messages)] = UserMessage(request.query)
             /\ messages' = Append(messages, AssistantMessage(response.answer))]_vars
  /\ [][~isLoading => (messages' = messages \/ StartsRequest)]_vars
  /\ [][IsPrefix(messages, messages')]_vars

\* a second question is asked after the first was answered
C28_Witness ==
  /\ Len(messages) = 3
  /\ messages[1].role = "user" /\ messages[2].role = "assistant" /\ messages[3].role = "user"
  /\ isLoading
  /\ request.query = messages[3].content

(***************************************************************************)
(* Claims about what processPdfToDocx resolves to.                         *)
(***************************************************************************)
RunStart ==
  RunInit /\ ConvIdle /\ SpliceIdle /\ RenderIdle /\ ChatIdle /\ UploadIdle /\ CliIdle /\ ProcIdle

RunSpec == RunStart /\ [][RunNext]_vars

\* '<input basename without .pdf>_processed.docx' next to the input
ProcessedNextToInput ==
  CASE inputPath = <<"d", "/", "a", ".", "p", "d", "f">> -> <<"d", "/", "a", "_", "p", "r", "o", "c", "e", "s", "s", "e", "d", ".", "d", "o", "c", "x">>
    [] inputPath = <<"a", ".", "p", "d", "f">> -> <<"a", "_", "p", "r", "o", "c", "e", "s", "s", "e", "d", ".", "d", "o", "c", "x">>
    [] inputPath = <<"/", "a", ".", "P", "D", "F">> -> <<"/", "a", ".", "P", "D", "F", "_", "p", "r", "o", "c", "e", "s", "s", "e", "d", ".", "d", "o", "c", "x">>

\* the path given, and the path next to the input when none is given
\* (undefined, or the empty string)
OutputPathMeant == IF truthy(outputPath) THEN outputPath ELSE ProcessedNextToInput

\* the sections of the document once they are all built
DocumentBuilt == cpc = "done"

\* C29: the promise of processPdfToDocx is never rejected; when the input
\* file does not exist or MISTRAL_API_KEY is not set, neither
\* client.files.upload nor client.ocr.process is called and the promise
\* resolves to false; when the upload, the signed-URL call, the OCR call or
\* the write of the file fails, it resolves to false; and it resolves to
\* true only after fs.writeFileSync has written the buffer of the built
\* document, once, to the output path: the given path, or
\* '<input basename without .pdf>_processed.docx' next to the input.
C29_FalseOnFailureTrueAfterWrite ==
  /\ promise # "rejected"
  /\ (promise = "pending") = (runPc # "returned")
  /\ (~inputExists \/ ~truthy(envApiKey)) =>
       /\ uploadCalls = 0 /\ ocrCalls = 0
       /\ promise # "true"
       /\ written = <<>>
  /\ failedAt # "none" => promise = "false" /\ written = <<>>
  /\ promise = "true" <=> (runPc = "returned" /\ failedAt = "none")
  /\ promise = "true" =>
       /\ DocumentBuilt
       /\ written = <<[path |-> OutputPathMeant, data |-> Packed(sections)]>>
  /\ promise # "true" => written = <<>>

\* a run without an output path wrote a document of two sections next to
\* the input and resolved to true
C29_Witness ==
  /\ promise = "true"
  /\ outputPath = Undefined
  /\ inputPath = <<"d", "/", "a", ".", "p", "d", "f">>
  /\ Len(written) = 1
  /\ written[1].path = <<"d", "/", "a", "_", "p", "r", "o", "c", "e", "s", "s", "e", "d", ".", "d", "o", "c", "x">>
  /\ Len(written[1].data.docx) = 2
  /\ uploadCalls = 1 /\ ocrCalls = 1

=============================================================================
